---------------------------- MODULE Spec2Model ----------------------------
(***************************************************************************)
(* Recipe AI: the workflow that turns a validated request into a recipe.   *)
(*                                                                         *)
(* The model follows one submission of the form: process_recipe_generation *)
(* (src/app.py) validates the request and builds the initial RecipeState,  *)
(* WorkflowService.execute_workflow (src/src/services/workflow_service.py) *)
(* runs the compiled graph node by node, and the nodes (src/nodes.py and   *)
(* workflow_service.py) rewrite the state.  The language model and the     *)
(* search client are the environment: every call draws its outcome from a  *)
(* small set (transport failure, text that is no JSON, a parsed value).    *)
(*                                                                         *)
(* Python values are modelled as follows.                                  *)
(*   str          a TLA+ string; the bullet U+2022 of the source is        *)
(*                written "*" because the module text is ASCII             *)
(*   list         a sequence                                               *)
(*   dict         a record with all the fields the code touches plus a     *)
(*                field `keys`, the set of keys the dict really holds;     *)
(*                d.get(k, dflt) and `k in d` read `keys`                  *)
(*   str-or-list  a tagged record (Str, List) where the code tests         *)
(*                isinstance(x, list)                                      *)
(*   float        the integer with the same value (12.0 is 12)             *)
(*   None         a tagged record for the API keys (None, Some)            *)
(*   exception    the name of the exception class; "" is "nothing raised"  *)
(***************************************************************************)
EXTENDS Integers, Sequences, FiniteSets, TLC

VARIABLES
    req,            \* the submitted form: ingredients, preferences, API keys
    pc,             \* the node the run executes next
    initial_state,  \* the RecipeState handed to execute_workflow
    state,          \* the RecipeState flowing through the graph
    result,         \* what execute_workflow returned
    ui,             \* what process_recipe_generation showed
    trace,          \* the nodes that ran, in order
    calls,          \* model and search calls issued so far
    heard,          \* what the latest node's call(s) came back with
    exc             \* the exception that left the graph ("" if none)

vars == <<req, pc, initial_state, state, result, ui, trace, calls, heard, exc>>

-----------------------------------------------------------------------------
(* Bounds of the model *)

MaxIngredients == 2     \* most ingredients typed into the text area

-----------------------------------------------------------------------------
(* Generic helpers for Python's built-ins *)

RECURSIVE Join(_, _)
\* sep.join(xs)
Join(sep, xs) ==
    IF xs = <<>> THEN ""
    ELSE IF Len(xs) = 1 THEN xs[1]
    ELSE xs[1] \o sep \o Join(sep, Tail(xs))

\* the ASCII characters str.strip() removes: space, \t, \n, \r, \f, \x0b
\* and \x1c-\x1f.  The strings of the model are ASCII; the Unicode spaces
\* str.strip() also removes do not occur in them
Whitespace ==
    {" ", "\t", "\n", "\r", "\f", "", "", "", "", ""}

RECURSIVE LStrip(_)
LStrip(s) ==
    IF s = "" THEN ""
    ELSE IF Head(s) \in Whitespace THEN LStrip(Tail(s)) ELSE s

RECURSIVE RStrip(_)
RStrip(s) ==
    IF s = "" THEN ""
    ELSE IF SubSeq(s, Len(s), Len(s)) \in Whitespace
         THEN RStrip(SubSeq(s, 1, Len(s) - 1)) ELSE s

\* str.strip()
Strip(s) == RStrip(LStrip(s))

\* s.startswith(p)
StartsWith(s, p) == Len(s) >= Len(p) /\ SubSeq(s, 1, Len(p)) = p

\* the number of items taken for the number of characters
SumLen_Count(xs) == Len(xs)

RECURSIVE SumLen(_)
\* sum(len(x) for x in xs)
SumLen(xs) == IF xs = <<>> THEN 0 ELSE Len(Head(xs)) + SumLen(Tail(xs))

\* all sequences over S of length lo..hi
SeqsOf(S, lo, hi) == UNION {[1..n -> S] : n \in lo..hi}

\* str-or-list values
Str(s) == [t |-> "str", s |-> s, l |-> <<>>]
List(l) == [t |-> "list", s |-> "", l |-> l]

\* optional strings (the API keys)
None == [none |-> TRUE, val |-> ""]
Some(v) == [none |-> FALSE, val |-> v]
\* Python truthiness of an optional string
Truthy(k) == ~k.none /\ k.val # ""

-----------------------------------------------------------------------------
(* Configuration tables, src/app_config.py *)

SUPPORTED_APPLIANCES ==
    {"Oven", "Stovetop", "Microwave", "Air Fryer", "Slow Cooker",
     "Pressure Cooker", "Grill", "Toaster", "Food Processor", "Blender"}

SUPPORTED_SKILL_LEVELS == <<"Beginner", "Intermediate", "Advanced">>

SUPPORTED_DIETARY_RESTRICTIONS ==
    {"Vegetarian", "Vegan", "Gluten-Free", "Dairy-Free", "Keto", "Low-Carb",
     "Low-Sodium", "Nut-Free", "Egg-Free", "Soy-Free"}

SUPPORTED_CUISINES ==
    {"Any", "Italian", "Mexican", "Asian", "American", "Mediterranean",
     "Indian", "Thai", "French", "Middle Eastern", "Japanese", "Chinese",
     "Korean", "Greek", "Spanish"}

Range(f) == {f[i] : i \in DOMAIN f}

-----------------------------------------------------------------------------
(* Dict values: NutritionInfo and Recipe *)

NutritionKeys ==
    {"calories_per_serving", "protein_g", "carbs_g", "fat_g", "fiber_g",
     "sodium_mg", "sugar_g", "key_nutrients", "health_benefits"}

\* the dict {} where a nutrition dict is expected (app.py: nutrition_info={})
EmptyNutrition ==
    [keys |-> {}, calories_per_serving |-> 0, protein_g |-> 0, carbs_g |-> 0,
     fat_g |-> 0, fiber_g |-> 0, sodium_mg |-> 0, sugar_g |-> 0,
     key_nutrients |-> <<>>, health_benefits |-> <<>>]

RecipeKeys ==
    {"name", "description", "emoji_representation", "prep_time", "cook_time",
     "total_time", "servings", "difficulty", "cuisine_type", "appliance_used",
     "ingredients", "instructions", "tips", "variations",
     "storage_instructions"}

\* the dict {} where a recipe dict is expected (app.py: selected_recipe={})
EmptyRecipe ==
    [kind |-> "dict", keys |-> {}, name |-> "", description |-> "",
     emoji_representation |-> "", prep_time |-> 0, cook_time |-> 0,
     total_time |-> 0, servings |-> 0, difficulty |-> "", cuisine_type |-> "",
     appliance_used |-> Str(""), ingredients |-> <<>>, instructions |-> <<>>,
     nutrition |-> EmptyNutrition, tips |-> <<>>, variations |-> <<>>,
     storage_instructions |-> ""]

\* d.get(k, dflt) on a dict value
Get(d, k, dflt) == IF k \in d.keys THEN d[k] ELSE dflt

\* d[k] = v on a dict value
Put(d, k, v) == [d EXCEPT ![k] = v, !.keys = @ \cup {k}]

\* Python truthiness of a recipe value: an empty dict and an empty string
\* are falsy, a non-empty dict and a non-empty string are truthy.  A string
\* where a recipe is expected is held with kind "str" and its text in `name`
RecipeTruthy(r) == IF r.kind = "dict" THEN r.keys # {} ELSE r.name # ""


-----------------------------------------------------------------------------
(* The submitted form *)

\* what is typed between two commas of the "Other ingredients" text area
IngredientPool == {"rice", " egg\r", " "}

\* the items picked in the ingredient multiselects
SelectedLists == {<<>>, <<"rice">>}

RECURSIVE SplitCommas(_, _)
\* text.split(','), `piece` being the characters read since the last comma
SplitCommas(text, piece) ==
    IF text = "" THEN <<piece>>
    ELSE IF Head(text) = "," THEN <<piece>> \o SplitCommas(Tail(text), "")
    ELSE SplitCommas(Tail(text), piece \o Head(text))

RECURSIVE StripNonBlank(_)
\* [ing.strip() for ing in pieces if ing.strip()]
StripNonBlank(pieces) ==
    IF pieces = <<>> THEN <<>>
    ELSE (IF Strip(Head(pieces)) # "" THEN <<Strip(Head(pieces))>> ELSE <<>>)
         \o StripNonBlank(Tail(pieces))

\* render_ingredient_selection: ingredients['additional'] for the text typed
additional_list(text) ==
    IF text = "" THEN <<>> ELSE StripNonBlank(SplitCommas(text, ""))

\* run: all_ingredients, the picked items followed by the typed ones
all_ingredients(selected, text) == selected \o additional_list(text)

\* the ingredient lists a submitted form hands to process_recipe_generation
SubmittedIngredients ==
    {all_ingredients(selected, Join(",", typed)) :
        selected \in SelectedLists,
        typed \in SeqsOf(IngredientPool, 0, MaxIngredients)}
ApplianceLists ==
    {<<>>, <<"Oven">>, <<"Grill", "Oven">>, <<"Wok">>, <<"Oven", "Wok">>}

\* the most ingredients a request may list
IngredientLimit == 50

\* a list of n ingredients
ManyIngredients(n) == [i \in 1..n |-> "rice"]

Requests ==
    [ingredients : SubmittedIngredients
                   \cup {ManyIngredients(IngredientLimit),
                         ManyIngredients(IngredientLimit + 1)},
     appliances : ApplianceLists,
     skill_level : {"Beginner", "Expert"},
     dietary_restrictions : {<<>>, <<"Vegan", "Paleo">>},
     cuisine_preference : {"Any", "Martian"},
     openai_api_key : {None, Some("sk-test")},
     tavily_api_key : {None, Some(""), Some("tvly-test")}]

RECURSIVE SelectSeq2(_, _)
\* [x for x in xs if x in S], order kept
SelectSeq2(xs, S) ==
    IF xs = <<>> THEN <<>>
    ELSE (IF Head(xs) \in S THEN <<Head(xs)>> ELSE <<>>)
         \o SelectSeq2(Tail(xs), S)

RECURSIVE InvalidApplianceErrors(_)
\* app.py: one message per appliance outside SUPPORTED_APPLIANCES
InvalidApplianceErrors(apps) ==
    IF apps = <<>> THEN <<>>
    ELSE (IF Head(apps) \notin SUPPORTED_APPLIANCES
          THEN <<"Invalid appliance: " \o Head(apps)>> ELSE <<>>)
         \o InvalidApplianceErrors(Tail(apps))

\* the ingredient check without the upper limit
IngredientErrors_NoLimit(ingredients) ==
    IF Len(ingredients) < 1
    THEN <<"Please select at least one ingredient.">>
    ELSE <<>>

\* app.py, lines 290-293: the ingredient check
IngredientErrors(ingredients) ==
    IF Len(ingredients) < 1
    THEN <<"Please select at least one ingredient.">>
    ELSE IF Len(ingredients) > IngredientLimit
    THEN <<"Too many ingredients selected (maximum 50).">>
    ELSE <<>>

\* app.py: the inline validation of process_recipe_generation
ValidationErrors(r) ==
    (IF ~Truthy(r.openai_api_key) \/ ~StartsWith(r.openai_api_key.val, "sk-")
     THEN <<"Please provide a valid OpenAI API key (starts with 'sk-').">>
     ELSE <<>>)
    \o IngredientErrors(r.ingredients)
    \o (IF Len(r.appliances) < 1
        THEN <<"Please select at least one cooking appliance.">>
        ELSE InvalidApplianceErrors(r.appliances))
    \o (IF r.skill_level \notin Range(SUPPORTED_SKILL_LEVELS)
        THEN <<"Invalid skill level. Must be one of: "
               \o Join(", ", SUPPORTED_SKILL_LEVELS)>>
        ELSE <<>>)
    \o (IF r.dietary_restrictions # <<>>
           /\ ~(Range(r.dietary_restrictions)
                  \subseteq SUPPORTED_DIETARY_RESTRICTIONS)
        THEN <<"Invalid dietary restrictions: "
               \o Join(", ", SelectSeq2(r.dietary_restrictions,
                     Range(r.dietary_restrictions)
                       \ SUPPORTED_DIETARY_RESTRICTIONS))>>
        ELSE <<>>)
    \o (IF r.cuisine_preference # ""
           /\ r.cuisine_preference \notin SUPPORTED_CUISINES
        THEN <<"Invalid cuisine preference: " \o r.cuisine_preference>>
        ELSE <<>>)

RECURSIVE CleanIngredients(_)
\* app.py: [ing.strip() for ing in ingredients if ing and ing.strip()]
CleanIngredients(xs) ==
    IF xs = <<>> THEN <<>>
    ELSE (IF Head(xs) # "" /\ Strip(Head(xs)) # ""
          THEN <<Strip(Head(xs))>> ELSE <<>>)
         \o CleanIngredients(Tail(xs))

\* a RecipeState with nothing in it: the value of `state`, `initial_state`
\* and `result` before the program has built them
BlankState ==
    [ingredients |-> <<>>, appliance |-> "", available_appliances |-> <<>>,
     dietary_restrictions |-> <<>>, cuisine_preference |-> "",
     skill_level |-> "", parsed_ingredients |-> <<>>,
     recipe_suggestions |-> <<>>, selected_recipe |-> EmptyRecipe,
     alternative_recipes |-> <<>>, user_selected_alternative |-> None,
     nutrition_info |-> EmptyNutrition, shopping_list |-> <<>>,
     cooking_tips |-> <<>>, final_recipe |-> EmptyRecipe,
     online_search_results |-> <<>>, search_enhanced |-> FALSE,
     search_enhancement_complete |-> FALSE, verification_result |-> None,
     processing_step |-> "", error_message |-> "",
     written |-> {}]

\* state["k1"] = v1; state["k2"] = v2; ... for the record upd of new values.
\* `written` is not a key of the program's state: it collects the keys the
\* nodes have assigned to this state object
With(s, upd) ==
    LET Assigned(old, new) ==
            [k \in DOMAIN old |->
                IF k = "written" THEN old.written \cup DOMAIN new
                ELSE IF k \in DOMAIN new THEN new[k] ELSE old[k]]
    IN  \* s and upd are evaluated once, then the keys are assigned
        CHOOSE after \in {Assigned(old, new) : old \in {s}, new \in {upd}} :
            TRUE

\* app.py: the RecipeState(...) built from a request that passed validation
InitialState(r) ==
    [BlankState EXCEPT
        !.ingredients = CleanIngredients(r.ingredients),
        !.appliance = IF r.appliances # <<>> THEN r.appliances[1] ELSE "Oven",
        !.available_appliances = r.appliances,
        !.dietary_restrictions = r.dietary_restrictions,
        !.cuisine_preference = r.cuisine_preference,
        !.skill_level = r.skill_level]

\* the enhanced graph built whatever the key
tavily_enabled_Always == TRUE

\* WorkflowService.__init__: tavily_enabled = tavily_api_key is not None
tavily_enabled == ~req.tavily_api_key.none

\* RecipeNodes.__init__: TavilyClient(...) if tavily_api_key else None
tavily_client == Truthy(req.tavily_api_key)

NoUi == [shown |-> "nothing", errors |-> <<>>]
NoCalls == [llm |-> 0, search |-> 0, asked |-> <<>>]
\* `heard` before any call, and after the search step: what each of its
\* queries would come back with
Unheard == [outcome |-> "none", value |-> <<>>]
Searched(outs) == [outcome |-> "search", value |-> outs]

Init ==
    /\ req \in Requests
    /\ pc = "process_recipe_generation"
    /\ initial_state = BlankState
    /\ state = BlankState
    /\ result = BlankState
    /\ ui = NoUi
    /\ trace = <<>>
    /\ calls = NoCalls
    /\ heard = Unheard
    /\ exc = ""

\* process_recipe_generation, the request fails validation: the messages
\* are shown and the function returns
RejectRequest ==
    /\ pc = "process_recipe_generation"
    /\ ValidationErrors(req) # <<>>
    /\ ui' = [shown |-> "validation_errors", errors |-> ValidationErrors(req)]
    /\ pc' = "rejected"
    /\ UNCHANGED <<req, initial_state, state, result, trace, calls, heard,
                   exc>>

\* process_recipe_generation, the request passes: the initial state is
\* built and execute_workflow starts the graph at its entry point
StartWorkflow ==
    /\ pc = "process_recipe_generation"
    /\ ValidationErrors(req) = <<>>
    /\ initial_state' = InitialState(req)
    /\ state' = InitialState(req)
    /\ pc' = "combined_recipe_generation"
    /\ UNCHANGED <<req, result, ui, trace, calls, heard, exc>>

-----------------------------------------------------------------------------
(* The language model: what a call can come back with *)

\* the written form of the bullet the source puts before an ingredient
BULLET == "* "

LongInstructions ==
    <<"Step 1: wash, chop, and season the chicken for at least ten minutes before searing",
      "Step 2: sear on medium-high heat for six minutes per side",
      "Step 3: rest for five minutes before slicing and serving">>

LLMNutrition ==
    [keys |-> NutritionKeys, calories_per_serving |-> 350, protein_g |-> 25,
     carbs_g |-> 30, fat_g |-> 12, fiber_g |-> 5, sodium_mg |-> 450,
     sugar_g |-> 8, key_nutrients |-> <<"High in protein">>,
     health_benefits |-> <<"benefit 1">>]

\* a recipe dict as the model writes it; total_time is the model's own
\* figure and need not be the sum of the two others
LLMRecipe(appliance_used, instructions) ==
    [kind |-> "dict", keys |-> RecipeKeys, name |-> "Fried Rice",
     description |-> "Quick fried rice", emoji_representation |-> ":)",
     prep_time |-> 10, cook_time |-> 20, total_time |-> 35, servings |-> 2,
     difficulty |-> "Medium", cuisine_type |-> "Asian",
     appliance_used |-> appliance_used,
     ingredients |-> <<"1 cup rice", "2 eggs">>,
     instructions |-> instructions, nutrition |-> EmptyNutrition,
     tips |-> <<"Use day-old rice">>, variations |-> <<"Add peas">>,
     storage_instructions |-> "Keep chilled"]

\* a recipe dict holding only some of the keys
Without(r, ks) ==
    [k \in DOMAIN r |->
        IF k = "keys" THEN r.keys \ ks
        ELSE IF k \in ks THEN EmptyRecipe[k] ELSE r[k]]

\* "recipe": "some text" -- a JSON string where a dict is expected
TextRecipe == [EmptyRecipe EXCEPT !.kind = "str", !.name = "some text"]

\* "recipe": "" -- the empty string where a dict is expected
EmptyTextRecipe == [EmptyRecipe EXCEPT !.kind = "str"]

DraftRecipes ==
    {LLMRecipe(Str("Oven"), LongInstructions),
     LLMRecipe(List(<<"Oven", "Grill">>), LongInstructions),
     LLMRecipe(Str("Blender"), <<"ok">>),
     Without(LLMRecipe(Str("Grill"), <<>>), {"name", "instructions"}),
     EmptyRecipe,
     TextRecipe,
     EmptyTextRecipe}

PayloadKeys == {"recipe", "nutrition", "shopping_list"}

\* a parsed JSON object with the given top-level keys
Payload(keys, recipe, shopping_list) ==
    [kind |-> "dict", keys |-> keys,
     recipe |-> IF "recipe" \in keys THEN recipe ELSE EmptyRecipe,
     nutrition |-> IF "nutrition" \in keys THEN LLMNutrition
                   ELSE EmptyNutrition,
     shopping_list |-> IF "shopping_list" \in keys THEN shopping_list
                       ELSE <<>>]

\* a parsed JSON value that is a list, not an object
ListPayload == [Payload({}, EmptyRecipe, <<>>) EXCEPT !.kind = "list"]

DraftPayloads ==
    {Payload(PayloadKeys, r, <<"soy sauce">>) : r \in DraftRecipes}
    \cup {Payload(PayloadKeys, LLMRecipe(Str("Oven"), LongInstructions), <<>>)}
    \cup {Payload(PayloadKeys \ {k}, LLMRecipe(Str("Oven"), LongInstructions),
                  <<"soy sauce">>) : k \in PayloadKeys}
    \cup {ListPayload}

\* a call for JSON: the transport fails, or text comes back that parses to
\* `value` or does not parse at all
Failed == [outcome |-> "fail", value |-> ListPayload]
NotJson == [outcome |-> "text", value |-> ListPayload]
Json(v) == [outcome |-> "json", value |-> v]

\* text that holds the payload v but is not JSON as a whole (the payload
\* inside a Markdown fence, or followed by prose)
Wrapped(v) == [outcome |-> "text", value |-> v]

DraftResponses ==
    {Failed, NotJson,
     Wrapped(Payload(PayloadKeys, LLMRecipe(Str("Oven"), LongInstructions),
                     <<"soy sauce">>))}
    \cup {Json(v) : v \in DraftPayloads}

-----------------------------------------------------------------------------
(* src/src/services: LLMService and RecipeService *)

\* a call that hands back whatever payload the text holds when the text as
\* a whole does not parse
generate_json_response_Lenient(resp) ==
    IF resp.outcome = "fail" THEN [exc |-> "Exception", value |-> resp.value]
    ELSE [exc |-> "", value |-> resp.value]

\* LLMService.generate_json_response: json.loads(response.content), or raise
generate_json_response(resp) ==
    IF resp.outcome = "json" THEN [exc |-> "", value |-> resp.value]
    ELSE [exc |-> "Exception", value |-> resp.value]

\* RecipeService.generate_combined_recipe: one call, re-raises what it raises
generate_combined_recipe(s, resp) == generate_json_response(resp)

RECURSIVE parse_ingredients(_)
\* RecipeService.parse_ingredients:
\* [ingredient.strip() for ingredient in ingredients if ingredient.strip()]
parse_ingredients(ingredients) ==
    IF ingredients = <<>> THEN <<>>
    ELSE (IF Strip(Head(ingredients)) # ""
          THEN <<Strip(Head(ingredients))>> ELSE <<>>)
         \o parse_ingredients(Tail(ingredients))

\* a validation that looks for the recipe alone
validate_recipe_data_RecipeOnly(recipe_data) ==
    recipe_data.kind = "dict" /\ "recipe" \in recipe_data.keys

\* RecipeService.validate_recipe_data: all three keys are in the value
\* (`key in a_list` is false for every key)
validate_recipe_data(recipe_data) ==
    /\ recipe_data.kind = "dict"
    /\ \A key \in PayloadKeys : key \in recipe_data.keys

\* the ingredient list copied without the bullet
Bulleted_Plain(ingredients) == ingredients

\* [f"<bullet> {ingredient}" for ingredient in ingredients]
Bulleted(ingredients) ==
    [i \in 1..Len(ingredients) |-> BULLET \o ingredients[i]]

FallbackPrepTime == 15
FallbackCookTime == 30
FallbackTotalTime == 45

\* RecipeService.create_fallback_recipe
create_fallback_recipe(ingredients, appliance) ==
    [recipe |->
        [kind |-> "dict", keys |-> RecipeKeys,
         name |-> "Simple Mixed Dish",
         description |->
            "A simple dish using available ingredients with " \o appliance,
         emoji_representation |-> ":plate::sparkles:",
         prep_time |-> FallbackPrepTime,
         cook_time |-> FallbackCookTime,
         total_time |-> FallbackTotalTime,
         servings |-> 4,
         difficulty |-> "Easy",
         cuisine_type |-> "International",
         appliance_used |-> Str(appliance),
         ingredients |-> Bulleted(ingredients),
         instructions |->
            <<"1. Prepare all ingredients by washing and chopping as needed",
              "2. Use your " \o appliance \o " to cook the ingredients",
              "3. Season to taste with salt and pepper",
              "4. Cook until ingredients are tender and flavors are combined",
              "5. Serve hot and enjoy!">>,
         nutrition |-> EmptyNutrition,
         tips |-> <<"Taste and adjust seasoning as needed",
                    "Don't overcook the vegetables",
                    "Add herbs or spices to enhance flavor">>,
         variations |-> <<"Add different seasonings",
                          "Include additional vegetables",
                          "Try different cooking methods">>,
         storage_instructions |-> "Store in refrigerator for up to 3 days"],
     nutrition |->
        [keys |-> NutritionKeys, calories_per_serving |-> 300,
         protein_g |-> 12, carbs_g |-> 40, fat_g |-> 10, fiber_g |-> 5,
         sodium_mg |-> 500, sugar_g |-> 6,
         key_nutrients |-> <<"Vitamin C", "Iron", "Calcium">>,
         health_benefits |-> <<"Provides balanced nutrition",
                               "Contains essential vitamins">>],
     shopping_list |-> <<"Basic seasonings if needed">>]

\* the assignments storing a draft, with the recipe's ingredient lines
\* written over the request's ingredients
StoreDraft_OverIngredients(s, data) ==
    With(s, [selected_recipe |-> data.recipe,
             nutrition_info |-> data.nutrition,
             shopping_list |-> data.shopping_list,
             final_recipe |-> data.recipe,
             ingredients |-> data.recipe.ingredients])

\* the four assignments that store a draft
StoreDraft(s, data) ==
    With(s, [selected_recipe |-> data.recipe,
             nutrition_info |-> data.nutrition,
             shopping_list |-> data.shopping_list,
             final_recipe |-> data.recipe])

\* a draft node that keeps the recipe of a response it rejects and takes
\* only the rest from the fallback
combined_recipe_generation_node_Mixed(s, resp) ==
    LET s1 == With(s, [parsed_ingredients |->
                              parse_ingredients(s.ingredients)])
        got == generate_json_response(resp)
        fb == create_fallback_recipe(s1.ingredients, s1.appliance)
    IN  IF got.exc = "" /\ got.value.kind = "dict"
           /\ "recipe" \in got.value.keys
        THEN [st |-> StoreDraft(s1,
                        [recipe |-> got.value.recipe,
                         nutrition |->
                            IF "nutrition" \in got.value.keys
                            THEN got.value.nutrition ELSE fb.nutrition,
                         shopping_list |->
                            IF "shopping_list" \in got.value.keys
                            THEN got.value.shopping_list
                            ELSE fb.shopping_list]),
              exc |-> ""]
        ELSE [st |-> StoreDraft(s1, fb), exc |-> ""]

\* a draft node whose fallback recipe takes its difficulty from the
\* request's skill level
combined_recipe_generation_node_SkillFallback(s, resp) ==
    LET s1 == With(s, [parsed_ingredients |->
                              parse_ingredients(s.ingredients)])
        got == generate_combined_recipe(s1, resp)
        fb == create_fallback_recipe(s1.ingredients, s1.appliance)
    IN  IF got.exc = "" /\ validate_recipe_data(got.value)
        THEN [st |-> StoreDraft(s1, got.value), exc |-> ""]
        ELSE [st |-> StoreDraft(s1,
                        [fb EXCEPT !.recipe.difficulty = s1.skill_level]),
              exc |-> ""]

\* WorkflowService.combined_recipe_generation_node: the state it returns and
\* the exception it raises ("" for none)
combined_recipe_generation_node(s, resp) ==
    LET s1 == With(s, [parsed_ingredients |->
                              parse_ingredients(s.ingredients)])
        got == generate_combined_recipe(s1, resp)
    IN  IF got.exc = "" /\ validate_recipe_data(got.value)
        THEN [st |-> StoreDraft(s1, got.value), exc |-> ""]
        ELSE [st |-> StoreDraft(s1, create_fallback_recipe(s1.ingredients,
                                                           s1.appliance)),
              exc |-> ""]

-----------------------------------------------------------------------------
(* src/nodes.py: cooking_tips_node and final_recipe_compiler_node *)

\* a call for text: the transport fails, or the lines of the text come back
TextFailed == [outcome |-> "fail", lines |-> <<>>]
Text(lines) == [outcome |-> "text", lines |-> lines]

\* a reply of nine distinct non-empty lines: an opening sentence and eight
\* numbered tips, two of which say again what an earlier tip said
NineLines ==
    <<"Here are your tips:", "1. Preheat the oven", "2. Rest the meat",
      "3. Taste often", "4. Salt early", "5. Use a timer", "6. Taste often",
      "7. Dry the pan", "8. Rest the meat">>

TipsResponses ==
    {TextFailed,
     Text(<<"1. Preheat the oven\r", "", "\r", "  2. Rest the meat ",
            "3. Taste often">>),
     Text(NineLines)}

RECURSIVE StripLines(_)
\* [tip.strip() for tip in content.split('\n') if tip.strip()]
StripLines(lines) ==
    IF lines = <<>> THEN <<>>
    ELSE (IF Strip(Head(lines)) # "" THEN <<Strip(Head(lines))>> ELSE <<>>)
         \o StripLines(Tail(lines))

\* the generic list without its last entry
GenericTips_Three ==
    <<"Read through the entire recipe before starting",
      "Prep all ingredients before cooking",
      "Keep a clean workspace">>

\* lines 65-70: the list stored when the tips call fails
GenericTips ==
    <<"Read through the entire recipe before starting",
      "Prep all ingredients before cooking",
      "Keep a clean workspace",
      "Taste as you go and adjust seasoning">>

\* the node clearing the enhancement latch as it starts
cooking_tips_node_ResetLatch(s, resp) ==
    LET s1 == With(s, [processing_step |-> "cooking_tips",
                       search_enhancement_complete |-> FALSE])
    IN  IF resp.outcome = "text"
        THEN [st |-> With(s1, [cooking_tips |-> StripLines(resp.lines),
                               processing_step |-> "cooking_tips_complete"]),
              exc |-> ""]
        ELSE [st |-> With(s1, [cooking_tips |-> GenericTips]), exc |-> ""]

\* the node resetting error_message as it starts
cooking_tips_node_ClearError(s, resp) ==
    LET s1 == With(s, [processing_step |-> "cooking_tips",
                       error_message |-> ""])
    IN  IF resp.outcome = "text"
        THEN [st |-> With(s1, [cooking_tips |-> StripLines(resp.lines),
                               processing_step |-> "cooking_tips_complete"]),
              exc |-> ""]
        ELSE [st |-> With(s1, [cooking_tips |-> GenericTips]), exc |-> ""]

\* the node adding its tips to the ones already in the state
cooking_tips_node_Append(s, resp) ==
    LET s1 == With(s, [processing_step |-> "cooking_tips"])
    IN  IF resp.outcome = "text"
        THEN [st |-> With(s1, [cooking_tips |->
                                  s1.cooking_tips \o StripLines(resp.lines),
                               processing_step |-> "cooking_tips_complete"]),
              exc |-> ""]
        ELSE [st |-> With(s1, [cooking_tips |->
                                  s1.cooking_tips \o GenericTips]),
              exc |-> ""]

\* RecipeNodes.cooking_tips_node
cooking_tips_node(s, resp) ==
    LET s1 == With(s, [processing_step |-> "cooking_tips"])
    IN  IF resp.outcome = "text"
        THEN [st |-> With(s1, [cooking_tips |-> StripLines(resp.lines),
                               processing_step |-> "cooking_tips_complete"]),
              exc |-> ""]
        ELSE [st |-> With(s1, [cooking_tips |-> GenericTips]), exc |-> ""]

\* what the compilation chain (model, then the FinalRecipe parser) returns:
\* a failure of either, or the parsed recipe as a dict
CompiledRecipe(appliance_used, instructions) ==
    [LLMRecipe(appliance_used, instructions) EXCEPT
        !.keys = RecipeKeys \cup {"nutrition"},
        !.name = "Golden Fried Rice",
        !.nutrition = LLMNutrition]

CompileFailed == [outcome |-> "fail", value |-> EmptyRecipe]
CompileUnparsed == [outcome |-> "text", value |-> EmptyRecipe]

CompileResponses ==
    {CompileFailed,
     CompileUnparsed,
     Json(CompiledRecipe(Str("Grill"), LongInstructions)),
     Json(CompiledRecipe(List(<<"Grill", "Oven">>), LongInstructions)),
     Json(CompiledRecipe(List(<<>>), LongInstructions)),
     Json(CompiledRecipe(Str("Oven"), <<"Mix", "Bake">>))}

CompilerInstructions ==
    <<"1. Prepare all ingredients",
      "2. Follow cooking method for your appliance",
      "3. Cook until done",
      "4. Serve and enjoy!">>

\* what evaluating [f"<bullet> {ing['name']}" for ing in parsed_ingredients]
\* raises: the entries are strings, and a string index must be an integer
IngredientNamesExc(parsed_ingredients) ==
    IF parsed_ingredients = <<>> THEN "" ELSE "TypeError"

\* the except branch of final_recipe_compiler_node: the recipe built from the
\* state, and the exception the dict display raises while it is evaluated
\* ("" for none; the entries are evaluated in the order written)
CompilerFallback(s) ==
    LET sel == s.selected_recipe
        e == IF sel.kind # "dict" THEN "AttributeError"
             ELSE IngredientNamesExc(s.parsed_ingredients)
        prep == Get(sel, "prep_time", 15)
        cook == Get(sel, "cook_time", 30)
    IN  [exc |-> e,
         recipe |->
            [kind |-> "dict", keys |-> RecipeKeys \cup {"nutrition"},
             name |-> Get(sel, "name", "Custom Recipe"),
             description |->
                Get(sel, "description", "A delicious homemade dish"),
             emoji_representation |-> ":plate::sparkles:",
             prep_time |-> prep,
             cook_time |-> cook,
             total_time |-> prep + cook,
             servings |-> Get(sel, "servings", 4),
             difficulty |-> Get(sel, "difficulty", "Medium"),
             cuisine_type |-> Get(sel, "cuisine_type", "International"),
             appliance_used |-> Str(s.appliance),
             \* the comprehension yields a value only over an empty list
             ingredients |-> <<>>,
             instructions |-> CompilerInstructions,
             nutrition |-> s.nutrition_info,
             tips |-> s.cooking_tips,
             variations |-> <<"Try different seasonings",
                              "Add more vegetables">>,
             storage_instructions |->
                "Store in refrigerator for up to 3 days"]]

\* lines 119-123: a list-valued appliance_used is replaced by its first
\* element; indexing an empty list raises
FixAppliance(r) ==
    IF r.appliance_used.t = "list"
    THEN IF r.appliance_used.l = <<>>
         THEN [exc |-> "IndexError", recipe |-> r]
         ELSE [exc |-> "",
               recipe |-> [r EXCEPT !.appliance_used =
                                        Str(r.appliance_used.l[1])]]
    ELSE [exc |-> "", recipe |-> r]

\* RecipeNodes.final_recipe_compiler_node
final_recipe_compiler_node(s, resp) ==
    LET s1 == With(s, [processing_step |-> "final_recipe_compilation"])
        fixed == FixAppliance(resp.value)
        fb == CompilerFallback(s1)
    IN  IF resp.outcome = "json" /\ fixed.exc = ""
        THEN [st |-> With(s1, [final_recipe |-> fixed.recipe,
                               processing_step |-> "final_recipe_complete"]),
              exc |-> ""]
        ELSE IF fb.exc = ""
        THEN [st |-> With(s1, [final_recipe |-> fb.recipe]), exc |-> ""]
        ELSE [st |-> s1, exc |-> fb.exc]

-----------------------------------------------------------------------------
(* src/nodes.py: online_search_node *)

Upper == <<"A", "B", "C", "D", "E", "F", "G", "H", "I", "J", "K", "L", "M",
           "N", "O", "P", "Q", "R", "S", "T", "U", "V", "W", "X", "Y", "Z">>
LowerOf == <<"a", "b", "c", "d", "e", "f", "g", "h", "i", "j", "k", "l", "m",
             "n", "o", "p", "q", "r", "s", "t", "u", "v", "w", "x", "y", "z">>

LowerChar(c) ==
    IF \E i \in 1..26 : Upper[i] = c
    THEN LowerOf[CHOOSE i \in 1..26 : Upper[i] = c]
    ELSE c

RECURSIVE Lower(_)
\* str.lower()
Lower(s) == IF s = "" THEN "" ELSE LowerChar(Head(s)) \o Lower(Tail(s))

\* sub in s
Contains(s, sub) ==
    \E i \in 1..(Len(s) - Len(sub) + 1) : SubSeq(s, i, i + Len(sub) - 1) = sub

\* search_queries[:2]
MaxQueries == 2
\* tavily_client.search(query, max_results=2)
MaxResultsPerQuery == 2
\* xs[:n]
Take(xs, n) == SubSeq(xs, 1, IF Len(xs) < n THEN Len(xs) ELSE n)

\* one hit as the search client returns it
Hit1 == [title |-> "Rice basics", content |-> "Rinse the rice first",
         url |-> "http://a.example"]
Hit2 == [title |-> "Egg notes", content |-> "", url |-> "http://b.example"]

\* a search call: an exception with the given text, or a response holding
\* "results"
SearchError(text) == [ok |-> FALSE, error |-> text, results |-> <<>>]
SearchHits(hits) == [ok |-> TRUE, error |-> "", results |-> hits]

SearchOutcomes ==
    {SearchError("401 Unauthorized"),
     SearchError("Invalid API Key"),
     SearchError("Connection timed out"),
     SearchHits(<<>>),
     SearchHits(<<Hit1>>),
     SearchHits(<<Hit2, Hit1>>)}

\* the test that takes no error for a credential problem
IsAuthError_Never(text) == FALSE

\* lines 215-216: the error text names a credential problem
IsAuthError(text) ==
    Contains(Lower(text), "unauthorized") \/ Contains(Lower(text), "api key")

\* the queries synthesized with the appliance query ahead of the others
search_queries_AppliancesFirst(s) ==
    (IF s.available_appliances # <<>>
     THEN <<"cooking tips " \o Join(" ", s.available_appliances)
            \o " techniques professional chef">>
     ELSE <<>>)
    \o (IF Get(s.selected_recipe, "name", "") # ""
        THEN <<s.selected_recipe.name \o " recipe cooking tips best practices">>
        ELSE <<>>)
    \o (IF s.ingredients # <<>>
        THEN <<"cooking techniques " \o Join(" ", Take(s.ingredients, 3))
               \o " " \o s.cuisine_preference \o " cuisine">>
        ELSE <<>>)

\* lines 180-196: the queries synthesized from the state
search_queries(s) ==
    (IF Get(s.selected_recipe, "name", "") # ""
     THEN <<s.selected_recipe.name \o " recipe cooking tips best practices">>
     ELSE <<>>)
    \o (IF s.ingredients # <<>>
        THEN <<"cooking techniques " \o Join(" ", Take(s.ingredients, 3))
               \o " " \o s.cuisine_preference \o " cuisine">>
        ELSE <<>>)
    \o (IF s.available_appliances # <<>>
        THEN <<"cooking tips " \o Join(" ", s.available_appliances)
               \o " techniques professional chef">>
        ELSE <<>>)

\* the records appended for one response
Collected(query, hits) ==
    [i \in 1..Len(hits) |->
        [title |-> hits[i].title, content |-> hits[i].content,
         url |-> hits[i].url, query |-> query]]

RECURSIVE SearchLoop_StopOnError(_, _, _, _)
\* the loop left at the first call that raises, whatever the error
SearchLoop_StopOnError(queries, outs, acc, n) ==
    IF queries = <<>> THEN [results |-> acc, issued |-> n]
    ELSE LET out == Head(outs) IN
         IF out.ok
         THEN SearchLoop_StopOnError(Tail(queries), Tail(outs),
                         acc \o Collected(Head(queries), out.results), n + 1)
         ELSE [results |-> acc, issued |-> n + 1]

RECURSIVE SearchLoop(_, _, _, _)
\* lines 199-223: the loop over search_queries[:2]; outs[i] is what the i-th
\* call comes back with.  Yields the results and the number of calls made
SearchLoop(queries, outs, acc, n) ==
    IF queries = <<>> THEN [results |-> acc, issued |-> n]
    ELSE LET out == Head(outs) IN
         IF out.ok
         THEN SearchLoop(Tail(queries), Tail(outs),
                         acc \o Collected(Head(queries), out.results), n + 1)
         ELSE IF IsAuthError(out.error)
         THEN [results |-> acc, issued |-> n + 1]
         ELSE SearchLoop(Tail(queries), Tail(outs), acc, n + 1)

\* the calls tavily_client.search(query, max_results=2) made for the first
\* n queries
SearchCalls(queries, n) ==
    [i \in 1..n |-> [query |-> queries[i],
                     max_results |-> MaxResultsPerQuery]]

\* the node raising search_enhanced as soon as a query has been issued
online_search_node_FlagOnAttempt(s, client, outs) ==
    LET s1 == With(s, [processing_step |-> "online_search"])
    IN  IF ~client
        THEN [st |-> With(s1, [online_search_results |-> <<>>,
                               search_enhanced |-> FALSE]),
              exc |-> "", issued |-> 0, asked |-> <<>>]
        ELSE IF s1.selected_recipe.kind # "dict"
        THEN [st |-> With(s1, [online_search_results |-> <<>>,
                               search_enhanced |-> FALSE,
                               error_message |->
                                   "Online search error: AttributeError"]),
              exc |-> "", issued |-> 0, asked |-> <<>>]
        ELSE LET done == SearchLoop(Take(search_queries(s1), MaxQueries),
                                    outs, <<>>, 0)
             IN  [st |-> With(s1,
                            [online_search_results |-> done.results,
                             search_enhanced |-> done.issued > 0,
                             processing_step |-> "online_search_complete"]),
                  exc |-> "", issued |-> done.issued,
                  asked |-> SearchCalls(search_queries(s1), done.issued)]

\* RecipeNodes.online_search_node; `client` is self.tavily_client; `issued`
\* counts the search calls made and `asked` lists them
online_search_node(s, client, outs) ==
    LET s1 == With(s, [processing_step |-> "online_search"])
    IN  IF ~client
        THEN [st |-> With(s1, [online_search_results |-> <<>>,
                               search_enhanced |-> FALSE]),
              exc |-> "", issued |-> 0, asked |-> <<>>]
        ELSE IF s1.selected_recipe.kind # "dict"
        THEN \* selected_recipe.get raises: the outer handler
             [st |-> With(s1, [online_search_results |-> <<>>,
                               search_enhanced |-> FALSE,
                               error_message |->
                                   "Online search error: AttributeError"]),
              exc |-> "", issued |-> 0, asked |-> <<>>]
        ELSE LET done == SearchLoop(Take(search_queries(s1), MaxQueries),
                                    outs, <<>>, 0)
             IN  [st |-> With(s1,
                            [online_search_results |-> done.results,
                             search_enhanced |-> Len(done.results) > 0,
                             processing_step |-> "online_search_complete"]),
                  exc |-> "", issued |-> done.issued,
                  asked |-> SearchCalls(search_queries(s1), done.issued)]

-----------------------------------------------------------------------------
(* src/nodes.py: enhance_with_search_node *)

\* the parsed value of the enhancement response: a JSON list, whose entries
\* are strings (Str) or something else (here a nested list, List), or a JSON
\* object
TipList(items) == [kind |-> "list", items |-> items]
TipObject == [kind |-> "dict", items |-> <<>>]

\* a list of strings as the entries of a JSON list
Strs(xs) == [i \in DOMAIN xs |-> Str(xs[i])]

EnhanceFailed == [outcome |-> "fail", value |-> TipObject]
EnhanceUnparsed == [outcome |-> "text", value |-> TipObject]

EnhanceResponses ==
    {EnhanceFailed,
     EnhanceUnparsed,
     Json(TipObject),
     Json(TipList(<<Str("Rinse the rice"), List(<<"Rest the meat">>),
                    Str("Rest the meat"), Str("Rinse the rice")>>)),
     Json(TipList(Strs(<<"B", "C", "D">>)))}

RECURSIVE Unique(_, _)
\* lines 308-313: the first occurrence of each tip that is a str, in order
Unique(tips, seen) ==
    IF tips = <<>> THEN <<>>
    ELSE IF Head(tips).t = "str" /\ Head(tips).s \notin seen
    THEN <<Head(tips).s>> \o Unique(Tail(tips), seen \cup {Head(tips).s})
    ELSE Unique(Tail(tips), seen)

\* unique_tips[:8]
MaxTips == 8

\* the merge without the cap
MergeTips_Uncapped(current_tips, enhanced_tips) ==
    Unique(Strs(current_tips) \o enhanced_tips, {})

\* lines 300-317: the merge of the current tips (all of them str) with the
\* returned entries
MergeTips(current_tips, enhanced_tips) ==
    Take(Unique(Strs(current_tips) \o enhanced_tips, {}), MaxTips)

\* lines 260-262: the results that have content
WithContent(results) == SelectSeq(results, LAMBDA r : r.content # "")

\* the node setting the latch after every model call, whatever came back
enhance_with_search_node_LatchOnFailure(s, resp) ==
    LET s1 == With(s, [processing_step |-> "search_enhancement"])
    IN  IF s1.search_enhancement_complete
        THEN [st |-> s1, exc |-> "", called |-> FALSE]
        ELSE IF ~s1.search_enhanced \/ s1.online_search_results = <<>>
        THEN [st |-> s1, exc |-> "", called |-> FALSE]
        ELSE IF WithContent(s1.online_search_results) = <<>>
        THEN [st |-> s1, exc |-> "", called |-> FALSE]
        ELSE IF s1.selected_recipe.kind # "dict"
        THEN [st |-> s1, exc |-> "", called |-> FALSE]
        ELSE IF resp.outcome = "json" /\ resp.value.kind = "list"
        THEN [st |-> With(s1,
                        [cooking_tips |->
                            MergeTips(s1.cooking_tips, resp.value.items),
                         processing_step |-> "search_enhancement_complete",
                         search_enhancement_complete |-> TRUE]),
              exc |-> "", called |-> TRUE]
        ELSE [st |-> With(s1, [search_enhancement_complete |-> TRUE]),
              exc |-> "", called |-> TRUE]

\* the node asking the model for tips whether or not the search left results
enhance_with_search_node_NoResultsNeeded(s, resp) ==
    LET s1 == With(s, [processing_step |-> "search_enhancement"])
    IN  IF s1.search_enhancement_complete
        THEN [st |-> s1, exc |-> "", called |-> FALSE]
        ELSE IF s1.selected_recipe.kind # "dict"
        THEN [st |-> s1, exc |-> "", called |-> FALSE]
        ELSE IF resp.outcome = "json" /\ resp.value.kind = "list"
        THEN [st |-> With(s1,
                        [cooking_tips |->
                            MergeTips(s1.cooking_tips, resp.value.items),
                         processing_step |-> "search_enhancement_complete",
                         search_enhancement_complete |-> TRUE]),
              exc |-> "", called |-> TRUE]
        ELSE [st |-> s1, exc |-> "", called |-> TRUE]

\* the node without the test of the latch
enhance_with_search_node_NoLatch(s, resp) ==
    LET s1 == With(s, [processing_step |-> "search_enhancement"])
    IN  IF ~s1.search_enhanced \/ s1.online_search_results = <<>>
        THEN [st |-> s1, exc |-> "", called |-> FALSE]
        ELSE IF WithContent(s1.online_search_results) = <<>>
        THEN [st |-> s1, exc |-> "", called |-> FALSE]
        ELSE IF s1.selected_recipe.kind # "dict"
        THEN [st |-> s1, exc |-> "", called |-> FALSE]
        ELSE IF resp.outcome = "json" /\ resp.value.kind = "list"
        THEN [st |-> With(s1,
                        [cooking_tips |->
                            MergeTips(s1.cooking_tips, resp.value.items),
                         processing_step |-> "search_enhancement_complete",
                         search_enhancement_complete |-> TRUE]),
              exc |-> "", called |-> TRUE]
        ELSE [st |-> s1, exc |-> "", called |-> TRUE]

\* RecipeNodes.enhance_with_search_node; `called` tells whether the model
\* was called
enhance_with_search_node(s, resp) ==
    LET s1 == With(s, [processing_step |-> "search_enhancement"])
    IN  IF s1.search_enhancement_complete
        THEN [st |-> s1, exc |-> "", called |-> FALSE]
        ELSE IF ~s1.search_enhanced \/ s1.online_search_results = <<>>
        THEN [st |-> s1, exc |-> "", called |-> FALSE]
        ELSE IF WithContent(s1.online_search_results) = <<>>
        THEN [st |-> s1, exc |-> "", called |-> FALSE]
        ELSE IF s1.selected_recipe.kind # "dict"
        THEN \* selected_recipe.get raises while the prompt is formatted
             [st |-> s1, exc |-> "", called |-> FALSE]
        ELSE IF resp.outcome = "json" /\ resp.value.kind = "list"
        THEN [st |-> With(s1,
                        [cooking_tips |->
                            MergeTips(s1.cooking_tips, resp.value.items),
                         processing_step |-> "search_enhancement_complete",
                         search_enhancement_complete |-> TRUE]),
              exc |-> "", called |-> TRUE]
        ELSE [st |-> s1, exc |-> "", called |-> TRUE]

-----------------------------------------------------------------------------
(* src/nodes.py: instruction_completion_node *)

\* the characters of a str: what len() counts and what iterating it yields
Chars(text) == [i \in 1..Len(text) |-> SubSeq(text, i, i)]

\* the parsed value of the correction response: an object that may hold
\* "complete_instructions" (a list of steps, or a str, kept as its
\* characters), or a JSON list
Completion(keys, steps) ==
    [kind |-> "dict", keys |-> keys, complete_instructions |-> steps,
     holds |-> "list"]
CompletionText(text) ==
    [kind |-> "dict", keys |-> {"complete_instructions"},
     complete_instructions |-> Chars(text), holds |-> "str"]
CompletionList ==
    [kind |-> "list", keys |-> {}, complete_instructions |-> <<>>,
     holds |-> "list"]

CompletionFailed == [outcome |-> "fail", value |-> CompletionList]
CompletionUnparsed == [outcome |-> "text", value |-> CompletionList]

FiveSteps ==
    <<"Step 1: rinse the rice until the water runs clear",
      "Step 2: boil the rice for twelve minutes and drain it",
      "Step 3: scramble the eggs in a hot oiled pan",
      "Step 4: fry the rice with the eggs for three minutes",
      "Step 5: season, rest for one minute and serve">>

CompletionResponses ==
    {CompletionFailed,
     CompletionUnparsed,
     Json(CompletionList),
     Json(Completion({}, <<>>)),
     Json(Completion({"complete_instructions"}, Take(FiveSteps, 2))),
     Json(Completion({"complete_instructions"}, FiveSteps)),
     Json(CompletionText("Cook everything until done"))}

\* the step count and the mean step length below which the instructions
\* are judged incomplete
MinSteps == 3
MinAvgLength == 30

\* the test with a mean of exactly 30 counted as too short
needs_completion_AtMost(instructions) ==
    IF instructions = <<>> \/ Len(instructions) < MinSteps THEN TRUE
    ELSE SumLen(instructions) <= MinAvgLength * Len(instructions)

\* lines 349-358: needs_completion.  avg_length is the true quotient, so
\* avg_length < 30 is sum < 30 * len
needs_completion(instructions) ==
    IF instructions = <<>> \/ Len(instructions) < MinSteps THEN TRUE
    ELSE SumLen(instructions) < MinAvgLength * Len(instructions)

\* the audit writing an accepted correction into final_recipe only
instruction_completion_node_FinalOnly(s, resp) ==
    LET s1 == With(s, [processing_step |-> "instruction_completion"])
        recipe == s1.final_recipe
        instructions == Get(recipe, "instructions", <<>>)
        complete_instructions ==
            Get(resp.value, "complete_instructions", <<>>)
        finished == With(s1, [processing_step |->
                                  "instruction_completion_complete"])
    IN  IF ~RecipeTruthy(recipe)
        THEN [st |-> s1, exc |-> "", called |-> FALSE]
        ELSE IF recipe.kind # "dict"
        THEN [st |-> s1, exc |-> "", called |-> FALSE]
        ELSE IF ~needs_completion(instructions)
        THEN [st |-> finished, exc |-> "", called |-> FALSE]
        ELSE IF resp.outcome = "fail"
        THEN [st |-> s1, exc |-> "", called |-> TRUE]
        ELSE IF resp.outcome = "text"
        THEN [st |-> finished, exc |-> "", called |-> TRUE]
        ELSE IF resp.value.kind # "dict"
        THEN [st |-> s1, exc |-> "", called |-> TRUE]
        ELSE IF complete_instructions # <<>>
                /\ Len(complete_instructions) > Len(instructions)
        THEN LET fixed == Put(recipe, "instructions", complete_instructions)
             IN  [st |-> With(finished, [final_recipe |-> fixed]),
                  exc |-> "", called |-> TRUE]
        ELSE [st |-> finished, exc |-> "", called |-> TRUE]

\* RecipeNodes.instruction_completion_node; `called` tells whether the model
\* was called
instruction_completion_node(s, resp) ==
    LET s1 == With(s, [processing_step |-> "instruction_completion"])
        recipe == s1.final_recipe
        instructions == Get(recipe, "instructions", <<>>)
        complete_instructions ==
            Get(resp.value, "complete_instructions", <<>>)
        finished == With(s1, [processing_step |->
                                  "instruction_completion_complete"])
    IN  IF ~RecipeTruthy(recipe)
        THEN [st |-> s1, exc |-> "", called |-> FALSE]
        ELSE IF recipe.kind # "dict"
        THEN \* recipe.get raises; the outer handler passes
             [st |-> s1, exc |-> "", called |-> FALSE]
        ELSE IF ~needs_completion(instructions)
        THEN [st |-> finished, exc |-> "", called |-> FALSE]
        ELSE IF resp.outcome = "fail"
        THEN [st |-> s1, exc |-> "", called |-> TRUE]
        ELSE IF resp.outcome = "text"
        THEN [st |-> finished, exc |-> "", called |-> TRUE]
        ELSE IF resp.value.kind # "dict"
        THEN \* completion_result.get raises; the outer handler passes
             [st |-> s1, exc |-> "", called |-> TRUE]
        ELSE IF complete_instructions # <<>>
                /\ Len(complete_instructions) > Len(instructions)
        THEN LET fixed == Put(recipe, "instructions", complete_instructions)
             IN  [st |-> With(finished, [final_recipe |-> fixed,
                                         selected_recipe |-> fixed]),
                  exc |-> "", called |-> TRUE]
        ELSE [st |-> finished, exc |-> "", called |-> TRUE]

-----------------------------------------------------------------------------
(* WorkflowService: the graph and execute_workflow *)

\* the graph with the tips-and-compilation node wired in both branches
AfterDraft_AlwaysEnhanced == "enhanced_cooking_tips"

\* the graph with the draft node wired to the tips step, key or no key
AfterDraft_TipsFirst == "cooking_tips"

\* the graph with an edge from the draft node back to itself
AfterDraft_Again == "combined_recipe_generation"

\* create_workflow_graph: the node that follows the draft node
AfterDraft ==
    IF tavily_enabled THEN "enhanced_cooking_tips"
    ELSE "instruction_completion"

\* RecipeUI.display_complete_recipe: the exception it raises, "" if none.
\* display_recipe_header returns at once for a falsy recipe, as every
\* display_* function does, and calls recipe.get otherwise, which a string
\* does not have
display_complete_recipe(final) ==
    IF RecipeTruthy(final.final_recipe) /\ final.final_recipe.kind # "dict"
    THEN "'str' object has no attribute 'get'"
    ELSE ""

\* process_recipe_generation, lines 362-385: the error message of the
\* returned state is shown, or the recipe is displayed; an exception raised
\* while displaying it is shown by the handler of lines 381-385
show_result(final) ==
    IF final.error_message # ""
    THEN [shown |-> "error", errors |-> <<final.error_message>>]
    ELSE IF display_complete_recipe(final) # ""
    THEN [shown |-> "error",
          errors |-> <<"An unexpected error occurred: "
                       \o display_complete_recipe(final)>>]
    ELSE [shown |-> "recipe", errors |-> <<>>]

\* execute_workflow, lines 136-137: the graph ran through and its state is
\* returned; process_recipe_generation then shows the recipe, or the error
\* message if the state carries one
Returned(final) ==
    /\ result' = final
    /\ ui' = show_result(final)
    /\ pc' = "done"

\* the handler that returns the state without recording the failure
Raised_Silently(message) ==
    /\ exc' = message
    /\ Returned(initial_state)

\* execute_workflow, lines 139-141: a node raised; the state handed in is
\* returned with the message.  The graph works on its own copy of the
\* state, so nothing a node assigned is in it
Raised(message) ==
    /\ exc' = message
    /\ Returned(With(initial_state,
                     [error_message |-> "Workflow failed: " \o message]))

\* the node combined_recipe_generation
CombinedRecipeGeneration ==
    /\ pc = "combined_recipe_generation"
    /\ \E resp \in DraftResponses :
        LET out == combined_recipe_generation_node(state, resp) IN
        /\ trace' = Append(trace, "combined_recipe_generation")
        /\ heard' = resp
        /\ calls' = [calls EXCEPT !.llm = @ + 1]
        /\ IF out.exc = ""
           THEN /\ state' = out.st
                /\ pc' = AfterDraft
                /\ UNCHANGED <<result, ui, exc>>
           ELSE /\ Raised("Error in combined recipe generation: " \o out.exc)
                /\ UNCHANGED state
    /\ UNCHANGED <<req, initial_state>>

\* enhanced_cooking_tips_node, lines 76-77: the search, when enabled
OnlineSearch ==
    /\ pc = "enhanced_cooking_tips"
    /\ \E outs \in [1..MaxQueries -> SearchOutcomes] :
        LET out == online_search_node(state, tavily_client, outs) IN
        /\ trace' = Append(trace, "online_search")
        /\ heard' = Searched(outs)
        /\ calls' = [calls EXCEPT !.search = @ + out.issued,
                                  !.asked = @ \o out.asked]
        /\ state' = out.st
        /\ pc' = IF out.st.online_search_results # <<>>
                 THEN "enhance_with_search" ELSE "cooking_tips"
    /\ UNCHANGED <<req, initial_state, result, ui, exc>>

\* enhanced_cooking_tips_node, lines 78-79: the enhancement, when the search
\* left results
EnhanceWithSearch ==
    /\ pc = "enhance_with_search"
    /\ \E resp \in EnhanceResponses :
        LET out == enhance_with_search_node(state, resp) IN
        /\ trace' = Append(trace, "enhance_with_search")
        /\ heard' = resp
        /\ calls' = [calls EXCEPT !.llm = @ + (IF out.called THEN 1 ELSE 0)]
        /\ state' = out.st
        /\ pc' = "cooking_tips"
    /\ UNCHANGED <<req, initial_state, result, ui, exc>>

\* enhanced_cooking_tips_node, line 82
CookingTips ==
    /\ pc = "cooking_tips"
    /\ \E resp \in TipsResponses :
        LET out == cooking_tips_node(state, resp) IN
        /\ trace' = Append(trace, "cooking_tips")
        /\ heard' = resp
        /\ calls' = [calls EXCEPT !.llm = @ + 1]
        /\ state' = out.st
        /\ pc' = "final_recipe_compiler"
    /\ UNCHANGED <<req, initial_state, result, ui, exc>>

\* enhanced_cooking_tips_node, lines 85-94: the compilation; what it raises
\* is raised again by the node and leaves the graph
FinalRecipeCompiler ==
    /\ pc = "final_recipe_compiler"
    /\ \E resp \in CompileResponses :
        LET out == final_recipe_compiler_node(state, resp) IN
        /\ trace' = Append(trace, "final_recipe_compiler")
        /\ heard' = resp
        /\ calls' = [calls EXCEPT !.llm = @ + 1]
        /\ IF out.exc = ""
           THEN /\ state' = out.st
                /\ pc' = "instruction_completion"
                /\ UNCHANGED <<result, ui, exc>>
           ELSE /\ Raised("Error in enhanced cooking tips: " \o out.exc)
                /\ UNCHANGED state
    /\ UNCHANGED <<req, initial_state>>

\* the node instruction_completion, the last of both graphs
InstructionCompletion ==
    /\ pc = "instruction_completion"
    /\ \E resp \in CompletionResponses :
        LET out == instruction_completion_node(state, resp) IN
        /\ trace' = Append(trace, "instruction_completion")
        /\ heard' = resp
        /\ calls' = [calls EXCEPT !.llm = @ + (IF out.called THEN 1 ELSE 0)]
        /\ state' = out.st
        /\ Returned(out.st)
    /\ UNCHANGED <<req, initial_state, exc>>

Next ==
    \/ RejectRequest
    \/ StartWorkflow
    \/ CombinedRecipeGeneration
    \/ OnlineSearch
    \/ EnhanceWithSearch
    \/ CookingTips
    \/ FinalRecipeCompiler
    \/ InstructionCompletion

Spec == Init /\ [][Next]_vars

\* the requests whose runs are followed to their end: with and without
\* ingredients, with and without the model key, and with no search key, an
\* empty one and a usable one
LiveRequests ==
    {r \in Requests :
        /\ r.ingredients \in {<<>>, <<"rice", "egg">>}
        /\ r.appliances \in {<<"Oven">>, <<"Grill", "Oven">>}
        /\ r.skill_level = "Beginner"
        /\ r.dietary_restrictions = <<>>
        /\ r.cuisine_preference = "Any"}

LiveInit == Init /\ req \in LiveRequests

\* every model call and every search call returns or fails, so the node that
\* is due always completes its step
LiveSpec == LiveInit /\ [][Next]_vars /\ WF_vars(Next)

-----------------------------------------------------------------------------
(* The nodes called on their own: online_search_node,                      *)
(* enhance_with_search_node and instruction_completion_node applied to a    *)
(* RecipeState drawn from a small set, the first two more than once         *)

MaxInvocations == 2     \* calls of the search and enhancement nodes on one state
MaxSteps == 4           \* longest instruction list handed to the audit

\* steps of 29, 30 and 31 characters
StepPool ==
    {"Boil the rice for ten minutes", "Whisk the eggs with some salt.", "Fry everything for two minutes."}

SevenTips == <<"T1", "T2", "T3", "T4", "T5", "T6", "T7">>

\* cooking_tips as an earlier node may have left it
TipLists == {<<>>, <<"A", "B">>, <<"B", "B", "A">>, SevenTips, NineLines}

\* online_search_results as online_search_node leaves it
ResultLists ==
    {<<>>, Collected("rice tips", <<Hit1>>), Collected("rice tips", <<Hit2>>),
     Collected("rice tips", <<Hit2, Hit1>>)}

\* what a query of a re-invoked search step comes back with
RepeatedSearchOutcomes ==
    {SearchError("Connection timed out"), SearchHits(<<Hit1>>),
     SearchHits(<<Hit2, Hit1>>)}

EnhanceStates ==
    {[BlankState EXCEPT
        !.ingredients = <<"rice">>,
        !.selected_recipe = rec,
        !.cooking_tips = tips,
        !.online_search_results = found,
        !.search_enhanced = (Len(found) > 0),
        !.search_enhancement_complete = latch] :
     rec \in {LLMRecipe(Str("Oven"), LongInstructions), TextRecipe},
     tips \in TipLists, found \in ResultLists, latch \in BOOLEAN}

AuditRecipes ==
    {LLMRecipe(Str("Oven"), steps) : steps \in SeqsOf(StepPool, 0, MaxSteps)}
    \cup {Without(LLMRecipe(Str("Oven"), LongInstructions), {"instructions"}),
          EmptyRecipe, TextRecipe}

AuditStates ==
    {[BlankState EXCEPT !.ingredients = <<"rice">>, !.final_recipe = rec] :
     rec \in AuditRecipes}

NodeInit ==
    /\ req = [ingredients |-> <<"rice">>, appliances |-> <<"Oven">>,
              skill_level |-> "Beginner", dietary_restrictions |-> <<>>,
              cuisine_preference |-> "Any",
              openai_api_key |-> Some("sk-test"),
              tavily_api_key |-> Some("tvly-test")]
    /\ \/ pc = "enhance_with_search_node" /\ state \in EnhanceStates
       \/ pc = "instruction_completion_node" /\ state \in AuditStates
    /\ initial_state = state
    /\ result = BlankState
    /\ ui = NoUi
    /\ trace = <<>>
    /\ calls = NoCalls
    /\ heard = Unheard
    /\ exc = ""

\* state = enhance_with_search_node(state); initial_state keeps the state
\* the call was made on
InvokeEnhance ==
    /\ pc = "enhance_with_search_node"
    /\ Len(trace) < MaxInvocations
    /\ \E resp \in EnhanceResponses :
        LET out == enhance_with_search_node(state, resp) IN
        /\ trace' = Append(trace, "enhance_with_search")
        /\ heard' = resp
        /\ calls' = [calls EXCEPT !.llm = @ + (IF out.called THEN 1 ELSE 0)]
        /\ initial_state' = state
        /\ state' = out.st
    /\ UNCHANGED <<req, pc, result, ui, exc>>

\* state = online_search_node(state), the step enhanced_cooking_tips_node
\* takes before the enhancement
InvokeSearch ==
    /\ pc = "enhance_with_search_node"
    /\ Len(trace) < MaxInvocations
    /\ \E outs \in [1..MaxQueries -> RepeatedSearchOutcomes] :
        LET out == online_search_node(state, tavily_client, outs) IN
        /\ trace' = Append(trace, "online_search")
        /\ heard' = Searched(outs)
        /\ calls' = [calls EXCEPT !.search = @ + out.issued,
                                  !.asked = @ \o out.asked]
        /\ initial_state' = state
        /\ state' = out.st
    /\ UNCHANGED <<req, pc, result, ui, exc>>

\* state = instruction_completion_node(state)
InvokeAudit ==
    /\ pc = "instruction_completion_node"
    /\ trace = <<>>
    /\ \E resp \in CompletionResponses :
        LET out == instruction_completion_node(state, resp) IN
        /\ trace' = Append(trace, "instruction_completion")
        /\ heard' = resp
        /\ calls' = [calls EXCEPT !.llm = @ + (IF out.called THEN 1 ELSE 0)]
        /\ initial_state' = state
        /\ state' = out.st
    /\ UNCHANGED <<req, pc, result, ui, exc>>

NodeNext == InvokeSearch \/ InvokeEnhance \/ InvokeAudit

NodeSpec == NodeInit /\ [][NodeNext]_vars

-----------------------------------------------------------------------------
(* Properties *)

Done == pc = "done"

\* node n has run
Ran(n) == \E i \in DOMAIN trace : trace[i] = n

\* node n is the latest node that ran
JustRan(n) == trace # <<>> /\ trace[Len(trace)] = n

\* the run was started without a search key
SearchDisabled == req.tavily_api_key.none

\* the response holds the three top-level keys
HasAllKeys(resp) ==
    /\ resp.outcome = "json"
    /\ resp.value.kind = "dict"
    /\ PayloadKeys \subseteq resp.value.keys

\* the draft fields of s are those of the record d
DraftIs(s, d) ==
    /\ s.selected_recipe = d.recipe
    /\ s.nutrition_info = d.nutrition
    /\ s.shopping_list = d.shopping_list
    /\ s.final_recipe = d.recipe

\* the fallback draft for the request of this run
RunFallback ==
    create_fallback_recipe(initial_state.ingredients, initial_state.appliance)

DraftFields == {"final_recipe", "nutrition_info", "shopping_list"}

\* C1: a run without a search key returns a state with no error message, a
\* single-string appliance_used, non-empty instructions and a shopping list
\* that has been set, whatever the model calls came back with
C1_SimpleRunWellFormed ==
    (Done /\ SearchDisabled) =>
        /\ result.error_message = ""
        /\ result.final_recipe.appliance_used.t = "str"
        /\ Get(result.final_recipe, "instructions", <<>>) # <<>>
        /\ "shopping_list" \in result.written

\* the order in which the nodes can run
NodeOrder ==
    <<"combined_recipe_generation", "online_search", "enhance_with_search",
      "cooking_tips", "final_recipe_compiler", "instruction_completion">>

Position(n) == CHOOSE i \in DOMAIN NodeOrder : NodeOrder[i] = n

\* C2 as stated: a run that completes has executed the tips and the
\* compilation steps between the draft and the audit, search key or not
C2_TipsAndCompilationAlwaysRun ==
    (Done /\ exc = "") =>
        /\ Ran("cooking_tips")
        /\ Ran("final_recipe_compiler")

\* C2, amended: the nodes run in the fixed order, each at most once.  With
\* a search key only the enhancement step can be skipped (it runs exactly
\* when the search left results) and the run stops after a compilation step
\* that raised; without a search key the run goes from the draft straight to
\* the audit
C2_StageOrder ==
    /\ \A i \in DOMAIN trace : \E j \in DOMAIN NodeOrder : trace[i] = NodeOrder[j]
    /\ \A i, j \in DOMAIN trace :
        i < j => Position(trace[i]) < Position(trace[j])
    /\ Done =>
        IF SearchDisabled
        THEN trace = <<"combined_recipe_generation", "instruction_completion">>
        ELSE /\ Ran("combined_recipe_generation")
             /\ Ran("online_search")
             /\ Ran("cooking_tips")
             /\ Ran("final_recipe_compiler")
             /\ Ran("enhance_with_search")
                    <=> state.online_search_results # <<>>
             /\ Ran("instruction_completion") <=> exc = ""

C2_Witness ==
    /\ Done
    /\ SearchDisabled
    /\ trace = <<"combined_recipe_generation", "instruction_completion">>

\* C3: every run of a request that passed validation returns a state with
\* no error message and with final_recipe set by a node of the run (shown
\* for the runs whose draft is a recipe object, as the prompt asks for)
C3_NoRunFailure ==
    (Done /\ state.selected_recipe.kind = "dict") =>
        /\ result.error_message = ""
        /\ "final_recipe" \in result.written

\* C4: whenever final_recipe is set its appliance_used is a single string,
\* in the state flowing through the graph and in the state returned
C4_ApplianceIsString ==
    /\ "appliance_used" \in state.final_recipe.keys
            => state.final_recipe.appliance_used.t = "str"
    /\ "appliance_used" \in result.final_recipe.keys
            => result.final_recipe.appliance_used.t = "str"

\* C5: in every state execute_workflow returns, an empty error_message
\* implies that final_recipe, nutrition_info and shopping_list have been
\* written by a stage of this run and that final_recipe is non-empty, so
\* that the caller can render them: displaying the result does not raise
\* and the recipe is what the form shows.
C5_NoErrorMeansNonEmptyRecipe ==
    (Done /\ result.error_message = "") =>
        /\ DraftFields \subseteq result.written
        /\ RecipeTruthy(result.final_recipe)
        /\ display_complete_recipe(result) = ""
        /\ ui.shown = "recipe"

\* C6: an exception that leaves a node is caught: the run is over, the
\* returned state carries the message, the form shows it, and the node that
\* raised is the last one that ran
C6_ExceptionBecomesErrorMessage ==
    exc # "" =>
        /\ Done
        /\ result.error_message = "Workflow failed: " \o exc
        /\ ui = [shown |-> "error", errors |-> <<result.error_message>>]
        /\ JustRan("final_recipe_compiler")
        /\ ~Ran("instruction_completion")

C6_Witness ==
    /\ exc # ""
    /\ Done
    /\ StartsWith(result.error_message, "Workflow failed: Error in enhanced")

\* C7: the draft node never raises; after a failed call, an unparsable
\* response or a response lacking one of the three keys the state holds the
\* local fallback and the run is at the next node
C7_DraftNeverRaises ==
    JustRan("combined_recipe_generation") =>
        /\ exc = ""
        /\ pc = AfterDraft
        /\ ~HasAllKeys(heard) => DraftIs(state, RunFallback)

C7_Witness ==
    /\ JustRan("combined_recipe_generation")
    /\ heard.outcome = "json"
    /\ heard.value.keys = PayloadKeys \ {"nutrition"}
    /\ DraftIs(state, RunFallback)
    /\ pc = AfterDraft

\* C8: when the draft call fails, the draft recipe lists the ingredients of
\* the request in order, each behind the bullet, and its total time is the
\* sum of its preparation and cooking times
C8_FallbackRecipeShape ==
    (JustRan("combined_recipe_generation") /\ heard.outcome = "fail") =>
        LET r == state.selected_recipe
            given == initial_state.ingredients
        IN  /\ Len(r.ingredients) = Len(given)
            /\ \A i \in DOMAIN given : r.ingredients[i] = "* " \o given[i]
            /\ r.total_time = r.prep_time + r.cook_time

C8_Witness ==
    /\ JustRan("combined_recipe_generation")
    /\ heard.outcome = "fail"
    /\ state.selected_recipe.ingredients = <<"* egg", "* rice">>
    /\ state.selected_recipe.total_time = 45

\* C9: after the draft node the recipe, the nutrition and the shopping list
\* all come from one response that held the three keys, or all come from the
\* local fallback
C9_DraftAllOrNothing ==
    JustRan("combined_recipe_generation") =>
        \/ HasAllKeys(heard) /\ DraftIs(state, heard.value)
        \/ ~HasAllKeys(heard) /\ DraftIs(state, RunFallback)

C9_Witness ==
    /\ JustRan("combined_recipe_generation")
    /\ HasAllKeys(heard)
    /\ DraftIs(state, heard.value)
    /\ state.nutrition_info = LLMNutrition
    /\ ~DraftIs(state, RunFallback)

\* C10: when the compilation call fails the compiler node builds
\* final_recipe from the state and raises nothing, so the run goes on to
\* the audit (shown for the states in which the draft is a recipe object)
C10_CompilerFallbackNeverFails ==
    (/\ JustRan("final_recipe_compiler")
     /\ heard.outcome # "json"
     /\ state.selected_recipe.kind = "dict") =>
        /\ exc = ""
        /\ pc = "instruction_completion"
        /\ state.final_recipe.instructions = CompilerInstructions

-----------------------------------------------------------------------------
(* Tips, enhancement, audit, search and validation *)

\* no string occurs twice in the list
NoDuplicates(xs) == \A i, j \in DOMAIN xs : xs[i] = xs[j] => i = j

\* C11: in every state after the enhancement step has run, the terminal
\* state included, cooking_tips holds no string twice and has at most 8
\* entries.
C11_TipsUniqueAndCapped ==
    Ran("enhance_with_search") =>
        /\ NoDuplicates(state.cooking_tips)
        /\ Len(state.cooking_tips) <= 8

\* the index of the first occurrence of x in xs
FirstAt(xs, x) ==
    CHOOSE i \in DOMAIN xs : xs[i] = x /\ \A j \in 1..(i - 1) : xs[j] # x

\* the entries of a JSON list that are strings
StrItems(items) ==
    LET strs == SelectSeq(items, LAMBDA v : v.t = "str")
    IN  [i \in DOMAIN strs |-> strs[i].s]

\* r is the first 8 entries of the order-preserving de-duplication of all:
\* r repeats nothing, holds only entries of all, keeps them in the order of
\* their first occurrence, holds 8 of them or all of them, and every entry
\* left out first occurs after every entry kept
FirstEightOfDistinct(r, all) ==
    /\ NoDuplicates(r)
    /\ Range(r) \subseteq Range(all)
    /\ \A i, j \in DOMAIN r :
          i < j => FirstAt(all, r[i]) < FirstAt(all, r[j])
    /\ Len(r) = IF Cardinality(Range(all)) < 8
                THEN Cardinality(Range(all)) ELSE 8
    /\ \A x \in Range(all) \ Range(r) :
          \A i \in DOMAIN r : FirstAt(all, r[i]) < FirstAt(all, x)

\* the step called the model and the reply parsed as a JSON list
EnhancedByList ==
    /\ InvokeEnhance
    /\ calls'.llm = calls.llm + 1
    /\ heard'.outcome = "json"
    /\ heard'.value.kind = "list"

\* C12: when the enhancement call returns a JSON list, the new cooking_tips
\* is the first 8 entries of the order-preserving de-duplication of the
\* existing tips followed by the returned tips (the returned entries that
\* are strings): every kept tip appears once, at the position of its first
\* occurrence.
C12_MergeKeepsFirstOccurrences ==
    [][EnhancedByList =>
         FirstEightOfDistinct(state'.cooking_tips,
             state.cooking_tips \o StrItems(heard'.value.items))]_vars

\* existing [A, B] and returned [B, C, D] gave [A, B, C, D]
C12_Witness ==
    /\ JustRan("enhance_with_search")
    /\ calls.llm = 1
    /\ initial_state.cooking_tips = <<"A", "B">>
    /\ heard = Json(TipList(Strs(<<"B", "C", "D">>)))
    /\ state.cooking_tips = <<"A", "B", "C", "D">>

\* the keys of the program's state
StateKeys == DOMAIN BlankState \ {"written"}

\* C13 as stated: invoking the Research Augmenter (the search step, the
\* enhancement step) on a state whose search_enhancement_complete is true
\* returns the state unchanged, every field equal to its value before the
\* call, and makes no model call.
C13_LatchedCallChangesNothing ==
    [][(InvokeSearch \/ InvokeEnhance) /\ state.search_enhancement_complete
         => /\ calls'.llm = calls.llm
            /\ \A k \in StateKeys : state'[k] = state[k]]_vars

\* the fields the search step assigns
SearchFields ==
    {"online_search_results", "search_enhanced", "processing_step",
     "error_message"}

\* C13, amended: on a state whose search_enhancement_complete is true the
\* enhancement step makes no model call and leaves every field but
\* processing_step as it was, the cooking_tips list in particular;
\* processing_step becomes "search_enhancement".  The search step does not
\* read the latch: invoked on such a state it makes no model call and
\* leaves cooking_tips and the latch as they were, and it changes no field
\* but the ones it assigns on every invocation.
C13_LatchedCallKeepsTips ==
    [][/\ InvokeEnhance /\ state.search_enhancement_complete
          => /\ calls' = calls
             /\ \A k \in StateKeys \ {"processing_step"} :
                   state'[k] = state[k]
             /\ state'.processing_step = "search_enhancement"
       /\ InvokeSearch /\ state.search_enhancement_complete
          => /\ calls'.llm = calls.llm
             /\ \A k \in StateKeys \ SearchFields : state'[k] = state[k]]_vars

\* a first invocation called the model and merged the tips, and a second
\* invocation on the latched state has returned
C13_Witness ==
    /\ Len(trace) = 2
    /\ JustRan("enhance_with_search")
    /\ calls.llm = 1
    /\ initial_state.search_enhancement_complete
    /\ initial_state.processing_step = "search_enhancement_complete"
    /\ state.processing_step = "search_enhancement"
    /\ state.cooking_tips = initial_state.cooking_tips
    /\ state.cooking_tips # <<>>

\* C14: search_enhancement_complete is monotone within a run: it is false
\* in the state the run starts from, no step of the run takes it from true
\* to false, and the state a run returns after its last node carries the
\* value the nodes left.
C14_LatchMonotone ==
    /\ ~state.search_enhancement_complete
    /\ [][/\ state.search_enhancement_complete
              => state'.search_enhancement_complete
          /\ StartWorkflow => ~state'.search_enhancement_complete
          /\ InstructionCompletion
              => result'.search_enhancement_complete
                   = state'.search_enhancement_complete]_vars

\* the enhancement set the latch, three more nodes ran, and the returned
\* state has it set
C14_Witness ==
    /\ Done
    /\ Ran("enhance_with_search")
    /\ JustRan("instruction_completion")
    /\ ~initial_state.search_enhancement_complete
    /\ state.search_enhancement_complete
    /\ result.search_enhancement_complete

\* the recipe handed to the audit is a non-empty recipe object
AuditedRecipe ==
    /\ JustRan("instruction_completion")
    /\ initial_state.final_recipe.kind = "dict"
    /\ initial_state.final_recipe.keys # {}

\* the instruction list the audit read
AuditedInstructions == Get(initial_state.final_recipe, "instructions", <<>>)

\* fewer than 3 steps, or a mean step length strictly below 30
LooksTruncated(steps) ==
    \/ Len(steps) < 3
    \/ SumLen(steps) < 30 * Len(steps)

\* C15: given a non-empty final recipe, the audit issues its corrective
\* call if and only if the instruction list has fewer than 3 steps (none
\* included) or the mean length of its steps is strictly below 30; 3 or
\* more steps of mean length 30 or more, exactly 30 included, trigger no
\* call.
C15_AuditTrigger ==
    AuditedRecipe =>
        /\ calls.llm \in {0, 1}
        /\ calls.llm = 1 <=> LooksTruncated(AuditedInstructions)

\* three steps of 29, 30 and 31 characters, mean exactly 30: no call
C15_Witness ==
    /\ AuditedRecipe
    /\ Len(AuditedInstructions) = 3
    /\ {Len(AuditedInstructions[i]) : i \in 1..3} = {29, 30, 31}
    /\ calls.llm = 0
    /\ state.processing_step = "instruction_completion_complete"

\* the audit node took this step
AuditStep == InstructionCompletion \/ InvokeAudit

\* what the corrective call came back with is a JSON object holding a
\* non-empty list under complete_instructions
ReturnedSteps(resp) ==
    /\ resp.outcome = "json"
    /\ resp.value.kind = "dict"
    /\ "complete_instructions" \in resp.value.keys
    /\ resp.value.holds = "list"
    /\ resp.value.complete_instructions # <<>>

\* C16: the audit replaces the instructions only when the corrective call
\* returns a non-empty list strictly longer than the current list; a
\* returned list of equal or smaller length is discarded, so the number of
\* instruction steps never decreases across the audit.
C16_ReplacedOnlyByLongerList ==
    [][AuditStep /\ state.final_recipe.kind = "dict" =>
         LET before == Get(state.final_recipe, "instructions", <<>>)
             after == Get(state'.final_recipe, "instructions", <<>>)
         IN  /\ Len(after) >= Len(before)
             /\ after # before =>
                   /\ calls'.llm = calls.llm + 1
                   /\ ReturnedSteps(heard')
                   /\ after = heard'.value.complete_instructions
                   /\ Len(after) > Len(before)
             /\ ReturnedSteps(heard')
                  /\ Len(heard'.value.complete_instructions) <= Len(before)
                => after = before]_vars

\* C17: if the corrective call fails, returns text that is not JSON, or
\* returns JSON without a usable complete_instructions list,
\* final_recipe.instructions keeps its value, no exception leaves the
\* audit, error_message is not set and the run reaches its terminal state.
C17_FailedCorrectionKeepsInstructions ==
    [][InstructionCompletion /\ ~ReturnedSteps(heard') =>
         /\ state'.final_recipe = state.final_recipe
         /\ state'.error_message = state.error_message
         /\ exc' = ""
         /\ pc' = "done"
         /\ result' = state']_vars

\* the search step has just run with a client and failed: building the
\* queries raised, or every query it issued raised
SearchFailed ==
    /\ JustRan("online_search")
    /\ tavily_client
    /\ \/ state.selected_recipe.kind # "dict"
       \/ /\ calls.search > 0
          /\ \A i \in 1..calls.search : ~heard.value[i].ok

\* C18: a failure of the search step, the failure of every query included,
\* leaves online_search_results empty and search_enhanced false, never sets
\* error_message and never stops the run: a run whose search left nothing
\* still executes the tips, compilation and audit steps.
C18_SearchFailureIsHarmless ==
    /\ SearchFailed =>
          /\ state.online_search_results = <<>>
          /\ ~state.search_enhanced
          /\ state.error_message = ""
    /\ Done /\ Ran("online_search") /\ state.online_search_results = <<>> =>
          /\ Ran("cooking_tips")
          /\ Ran("final_recipe_compiler")
          /\ Ran("instruction_completion")

\* the search step has just run its loop; `heard` holds what each query
\* would come back with
SearchLooped ==
    /\ JustRan("online_search")
    /\ tavily_client
    /\ state.selected_recipe.kind = "dict"

\* the queries the step had to issue
IssuableQueries == Take(search_queries(state), 2)

\* the error texts that name an unauthorized or invalid API key
AuthTexts == {"401 Unauthorized", "Invalid API Key"}

\* query i fails with an authentication-class error and no earlier one does
FirstAuthFailure(i) ==
    /\ i \in 1..Len(IssuableQueries)
    /\ \A j \in 1..i :
          ~heard.value[j].ok /\ heard.value[j].error \in AuthTexts <=> j = i

RECURSIVE CollectedBefore(_)
\* the records of the hits of the queries before query i
CollectedBefore(i) ==
    IF i <= 1 THEN <<>>
    ELSE CollectedBefore(i - 1)
         \o [k \in 1..Len(heard.value[i - 1].results) |->
               [title |-> heard.value[i - 1].results[k].title,
                content |-> heard.value[i - 1].results[k].content,
                url |-> heard.value[i - 1].results[k].url,
                query |-> IssuableQueries[i - 1]]]

\* C19: when a search query fails with an authentication-class error, no
\* further query is issued in the run, and the results collected from the
\* earlier queries remain in online_search_results, with search_enhanced
\* telling whether there are any.
C19_AuthFailureStopsSearch ==
    SearchLooped =>
        \A i \in 1..2 :
            FirstAuthFailure(i) =>
                /\ calls.search = i
                /\ state.online_search_results = CollectedBefore(i)
                /\ state.search_enhanced
                     = (state.online_search_results # <<>>)
                /\ state.error_message = ""

\* two queries were due, the first failed on the API key, one was issued
C19_Witness ==
    /\ SearchLooped
    /\ Len(IssuableQueries) = 2
    /\ FirstAuthFailure(1)
    /\ calls.search = 1
    /\ state.online_search_results = <<>>
    /\ ~state.search_enhanced

\* the request has one of the problems validation looks for
HasProblem(r) ==
    \/ r.openai_api_key.none
    \/ ~StartsWith(r.openai_api_key.val, "sk-")
    \/ r.ingredients = <<>>
    \/ Len(r.ingredients) > 50
    \/ r.appliances = <<>>
    \/ \E i \in DOMAIN r.appliances :
          r.appliances[i] \notin SUPPORTED_APPLIANCES
    \/ r.skill_level \notin {"Beginner", "Intermediate", "Advanced"}
    \/ \E i \in DOMAIN r.dietary_restrictions :
          r.dietary_restrictions[i] \notin SUPPORTED_DIETARY_RESTRICTIONS
    \/ r.cuisine_preference # ""
         /\ r.cuisine_preference \notin SUPPORTED_CUISINES

\* C20: if validation finds any problem (no ingredients, more than 50, no
\* appliance, an unsupported appliance, skill level, dietary tag or
\* cuisine), process_recipe_generation reports the messages and returns
\* without building a state and without calling execute_workflow: no model
\* or search call is made.
C20_InvalidRequestNeverRuns ==
    HasProblem(req) /\ pc # "process_recipe_generation" =>
        /\ pc = "rejected"
        /\ ui.shown = "validation_errors"
        /\ ui.errors # <<>>
        /\ Len(req.ingredients) > 50 =>
              "Too many ingredients selected (maximum 50)."
                 \in Range(ui.errors)
        /\ req.ingredients = <<>> =>
              "Please select at least one ingredient." \in Range(ui.errors)
        /\ req.appliances = <<>> =>
              "Please select at least one cooking appliance."
                 \in Range(ui.errors)
        /\ initial_state = BlankState
        /\ state = BlankState
        /\ result = BlankState
        /\ trace = <<>>
        /\ calls = NoCalls

\* a request whose only problem is its 51 ingredients was turned away
C20_Witness ==
    /\ pc = "rejected"
    /\ Len(req.ingredients) = 51
    /\ ui.errors = <<"Too many ingredients selected (maximum 50).">>
    /\ calls = NoCalls
    /\ trace = <<>>

-----------------------------------------------------------------------------
(* Request fields, field order, the disabled search branch *)

\* the request fields of the state
RequestKeys ==
    {"ingredients", "appliance", "available_appliances",
     "dietary_restrictions", "cuisine_preference", "skill_level"}

\* the run has been started
Started == pc \notin {"process_recipe_generation", "rejected"}

\* C21: the request fields of the state are set once, when the state is
\* built from the request, and no node changes them: in every state of a
\* run, the returned one included, they equal their initial values.
C21_RequestFieldsFrozen ==
    Started =>
        \A k \in RequestKeys :
            /\ initial_state[k] = InitialState(req)[k]
            /\ state[k] = initial_state[k]
            /\ Done => result[k] = initial_state[k]

\* a run through all six nodes has returned with the request's two
\* ingredients in place
C21_Witness ==
    /\ Done
    /\ Len(trace) = 6
    /\ req.ingredients = <<"rice", "egg">>
    /\ result.ingredients = <<"rice", "egg">>
    /\ result.available_appliances = <<"Grill", "Oven">>
    /\ result.appliance = "Grill"

\* C22: along each branch, every working field a node reads has been
\* written by an earlier node of the run: the search reads a written
\* selected_recipe; the enhancement, once it has search content to work on,
\* reads written online_search_results, cooking_tips and selected_recipe;
\* the tips step reads a written selected_recipe; the compilation reads
\* written selected_recipe, nutrition_info and cooking_tips; the audit
\* reads a written final_recipe.
C22_ReadsFollowWrites ==
    [][/\ OnlineSearch => "selected_recipe" \in state.written
       /\ EnhanceWithSearch /\ WithContent(state.online_search_results) # <<>>
          => {"online_search_results", "cooking_tips", "selected_recipe"}
                \subseteq state.written
       /\ CookingTips => "selected_recipe" \in state.written
       /\ FinalRecipeCompiler
          => {"selected_recipe", "nutrition_info", "cooking_tips"}
                \subseteq state.written
       /\ InstructionCompletion => "final_recipe" \in state.written]_vars

\* C23: when no search key is supplied the search branch is disabled and
\* that is no error: neither the search nor the enhancement step runs, no
\* query is issued, online_search_results stays empty, search_enhanced and
\* search_enhancement_complete stay false and error_message is never set,
\* in the running state and in the returned one; the form shows the recipe
\* unless displaying it raises.
C23_NoKeyNoSearch ==
    SearchDisabled =>
        /\ ~Ran("online_search")
        /\ ~Ran("enhance_with_search")
        /\ calls.search = 0
        /\ \A s \in {state, result} :
              /\ s.online_search_results = <<>>
              /\ ~s.search_enhanced
              /\ ~s.search_enhancement_complete
              /\ s.error_message = ""
        /\ exc = ""
        /\ Done => ui.shown = IF display_complete_recipe(result) = ""
                              THEN "recipe" ELSE "error"

\* a run without a search key has returned and the recipe is shown
C23_Witness ==
    /\ SearchDisabled
    /\ Done
    /\ trace = <<"combined_recipe_generation", "instruction_completion">>
    /\ calls.search = 0
    /\ result.error_message = ""
    /\ ui.shown = "recipe"

\* the draft response is a combined payload with its three keys and a recipe
\* object holding every recipe field
ValidPayload(resp) ==
    /\ HasAllKeys(resp)
    /\ resp.value.recipe.kind = "dict"
    /\ resp.value.recipe.keys = RecipeKeys

\* C24: with the search branch disabled, a draft call that returned a valid
\* combined payload and a correction call that succeeded, the returned state
\* has an empty error_message, final_recipe.appliance_used a string that is
\* one of the request's available appliances, and
\* nutrition_info.calories_per_serving a positive integer.
C24_ValidPayloadRun ==
    [][(/\ InstructionCompletion
        /\ SearchDisabled
        /\ ValidPayload(heard)
        /\ heard'.outcome = "json")
       => /\ result'.error_message = ""
          /\ result'.final_recipe.appliance_used.t = "str"
          /\ result'.final_recipe.appliance_used.s
                \in Range(initial_state.available_appliances)
          /\ result'.nutrition_info.calories_per_serving \in Nat \ {0}]_vars

-----------------------------------------------------------------------------
(* The search queries *)

\* the three queries of the specification, for the state of this run
NameQuery == state.selected_recipe.name \o " recipe cooking tips best practices"
IngredientQuery ==
    "cooking techniques " \o Join(" ", Take(state.ingredients, 3)) \o " "
    \o state.cuisine_preference \o " cuisine"
ApplianceQuery ==
    "cooking tips " \o Join(" ", state.available_appliances)
    \o " techniques professional chef"

\* the draft recipe has a name
DraftHasName ==
    /\ state.selected_recipe.kind = "dict"
    /\ "name" \in state.selected_recipe.keys
    /\ state.selected_recipe.name # ""

\* the first two of the synthesized list: the name query if the draft has a
\* name, then the ingredient query, then the appliance query (the ingredient
\* list and the appliance list of a validated request are not empty)
FirstTwoQueries ==
    IF DraftHasName THEN <<NameQuery, IngredientQuery>>
    ELSE <<IngredientQuery, ApplianceQuery>>

\* no query that was due failed with an authentication-class error
NoAuthFailure == \A i \in 1..2 : ~FirstAuthFailure(i)

\* C25: a run issues at most 2 search queries, each asking for at most 2
\* results, and the queries issued are the first two of the synthesized
\* list in synthesis order: the recipe-name query (present only if the
\* draft recipe has a name), then the first-3-ingredients query, then the
\* appliances query; fewer than two are issued only when one fails on the
\* credentials.
C25_AtMostTwoQueriesInOrder ==
    /\ calls.search = Len(calls.asked)
    /\ Len(calls.asked) <= 2
    /\ \A i \in DOMAIN calls.asked : calls.asked[i].max_results <= 2
    /\ JustRan("online_search")
         => \A i \in DOMAIN calls.asked :
               calls.asked[i].query = FirstTwoQueries[i]
    /\ SearchLooped /\ NoAuthFailure => Len(calls.asked) = 2

\* a draft without a name: the ingredient query, then the appliance query
C25_Witness ==
    /\ JustRan("online_search")
    /\ ~DraftHasName
    /\ calls.asked =
         <<[query |-> "cooking techniques rice egg Any cuisine",
            max_results |-> 2],
           [query |-> "cooking tips Grill Oven techniques professional chef",
            max_results |-> 2]>>

\* query i was due and failed with an error that is not of the
\* authentication class
OtherFailure(i) ==
    /\ i \in 1..Len(IssuableQueries)
    /\ ~heard.value[i].ok
    /\ heard.value[i].error \notin AuthTexts

\* C26: when a search query fails with an error that is not of the
\* authentication class (and none fails with one), every query that was due
\* is still issued, the one after the failed query included, and the results
\* of the other queries are kept in online_search_results; no error message
\* is set.
C26_OtherFailureContinues ==
    SearchLooped /\ NoAuthFailure /\ (\E i \in 1..2 : OtherFailure(i))
        => /\ calls.search = Len(IssuableQueries)
           /\ [i \in DOMAIN calls.asked |-> calls.asked[i].query]
                = IssuableQueries
           /\ state.online_search_results
                = CollectedBefore(Len(IssuableQueries) + 1)
           /\ state.search_enhanced = (state.online_search_results # <<>>)
           /\ state.error_message = ""

\* the first query timed out, the second was issued and its two hits kept
C26_Witness ==
    /\ SearchLooped
    /\ heard.value[1] = SearchError("Connection timed out")
    /\ heard.value[2] = SearchHits(<<Hit2, Hit1>>)
    /\ calls.search = 2
    /\ Len(state.online_search_results) = 2
    /\ state.online_search_results[1].query = IssuableQueries[2]
    /\ state.search_enhanced

-----------------------------------------------------------------------------
(* The enhancement call and the tips call *)

\* C27: the tip-enhancement model call is made only if the search step
\* collected at least one result and search_enhancement_complete is false;
\* in every other case the enhancement step makes no model call and changes
\* neither cooking_tips nor the latch.
C27_EnhancementCallGuard ==
    [][InvokeEnhance
         => /\ calls'.llm = calls.llm + 1
                => /\ state.online_search_results # <<>>
                   /\ ~state.search_enhancement_complete
            /\ (state.online_search_results = <<>>
                \/ state.search_enhancement_complete)
                => /\ calls' = calls
                   /\ state'.cooking_tips = state.cooking_tips
                   /\ state'.search_enhancement_complete
                        = state.search_enhancement_complete]_vars

\* a first call of the step, on a state with a result and the latch unset,
\* asked the model; a second one, on the latched state, did not
C27_Witness ==
    /\ trace = <<"enhance_with_search", "enhance_with_search">>
    /\ calls.llm = 1
    /\ initial_state.online_search_results = Collected("rice tips", <<Hit1>>)
    /\ initial_state.search_enhancement_complete
    /\ state.cooking_tips = initial_state.cooking_tips
    /\ state.search_enhancement_complete

\* the enhancement response is a failed call, text that is not JSON, or
\* JSON that is not a list
EnhancementUnusable(resp) ==
    resp.outcome # "json" \/ resp.value.kind # "list"

\* C28: if the enhancement model call fails, returns text that is not JSON,
\* or returns JSON that is not a list, then cooking_tips and
\* search_enhancement_complete keep the values they had before the step,
\* error_message is not set, nothing is raised and the run continues with
\* the tips step.
C28_FailedEnhancementIsSwallowed ==
    [][EnhanceWithSearch /\ calls'.llm = calls.llm + 1
         /\ EnhancementUnusable(heard')
         => /\ state'.cooking_tips = state.cooking_tips
            /\ state'.search_enhancement_complete
                 = state.search_enhancement_complete
            /\ state'.error_message = state.error_message
            /\ state'.error_message = ""
            /\ exc' = ""
            /\ pc' = "cooking_tips"]_vars

\* the enhancement call returned text that is not JSON and the tips step is
\* next
C28_Witness ==
    /\ JustRan("enhance_with_search")
    /\ heard = EnhanceUnparsed
    /\ calls.llm = 2
    /\ ~state.search_enhancement_complete
    /\ state.cooking_tips = <<>>
    /\ state.error_message = ""
    /\ pc = "cooking_tips"

\* C29: if the tips generation call fails, cooking_tips is set to exactly
\* the fixed generic 4-item list (read through the recipe, prep ahead, clean
\* workspace, taste and adjust), whatever the list held before, nothing is
\* raised and the stage proceeds to compilation.
C29_FailedTipsGetGenericList ==
    [][CookingTips /\ heard'.outcome # "text"
         => /\ state'.cooking_tips =
                 <<"Read through the entire recipe before starting",
                   "Prep all ingredients before cooking",
                   "Keep a clean workspace",
                   "Taste as you go and adjust seasoning">>
            /\ state'.error_message = state.error_message
            /\ exc' = ""
            /\ pc' = "final_recipe_compiler"]_vars

\* the tips call failed after the enhancement had merged tips from the
\* search; the generic list replaced them and compilation is next
C29_Witness ==
    /\ JustRan("cooking_tips")
    /\ Ran("enhance_with_search")
    /\ state.search_enhancement_complete
    /\ heard = TextFailed
    /\ Len(state.cooking_tips) = 4
    /\ state.cooking_tips[4] = "Taste as you go and adjust seasoning"
    /\ pc = "final_recipe_compiler"
    /\ exc = ""

-----------------------------------------------------------------------------
(* The compiler's local synthesis *)

\* the compilation step has just run and took its except branch: the call
\* failed, its text did not parse, or the appliance list it held was empty
CompilationFellBack ==
    /\ JustRan("final_recipe_compiler")
    /\ \/ heard.outcome # "json"
       \/ heard.value.appliance_used = List(<<>>)

\* C30: when compilation falls back to local synthesis, the resulting
\* final_recipe has total_time = prep_time + cook_time (the draft's values,
\* defaulting to 15 and 30), the fixed 4-step generic instruction list, one
\* bullet-prefixed entry per parsed ingredient in order, a single-string
\* appliance_used, and nutrition and tips equal to the state's
\* nutrition_info and cooking_tips (shown for a draft that is a recipe
\* object).
C30_FallbackRecipeFromState ==
    CompilationFellBack /\ state.selected_recipe.kind = "dict" =>
        LET f == state.final_recipe
            sel == state.selected_recipe
        IN  /\ f.prep_time = IF "prep_time" \in sel.keys
                             THEN sel.prep_time ELSE 15
            /\ f.cook_time = IF "cook_time" \in sel.keys
                             THEN sel.cook_time ELSE 30
            /\ f.total_time = f.prep_time + f.cook_time
            /\ f.instructions =
                 <<"1. Prepare all ingredients",
                   "2. Follow cooking method for your appliance",
                   "3. Cook until done",
                   "4. Serve and enjoy!">>
            /\ f.ingredients =
                 [i \in 1..Len(state.parsed_ingredients) |->
                     BULLET \o state.parsed_ingredients[i]]
            /\ f.appliance_used.t = "str"
            /\ f.nutrition = state.nutrition_info
            /\ f.tips = state.cooking_tips

-----------------------------------------------------------------------------
(* The audit's write-back, the request's ingredients, retries *)

\* the audit asked for a correction and accepts what came back: a JSON
\* object whose complete_instructions is non-empty and longer than the
\* instructions of the recipe in s
CorrectionAccepted(s, resp) ==
    /\ s.final_recipe.kind = "dict"
    /\ s.final_recipe.keys # {}
    /\ LooksTruncated(Get(s.final_recipe, "instructions", <<>>))
    /\ resp.outcome = "json"
    /\ resp.value.kind = "dict"
    /\ "complete_instructions" \in resp.value.keys
    /\ resp.value.complete_instructions # <<>>
    /\ Len(resp.value.complete_instructions)
         > Len(Get(s.final_recipe, "instructions", <<>>))

\* C31: after the auditor accepts a correction, the new instruction list is
\* in both recipe views: final_recipe.instructions and
\* selected_recipe.instructions both equal the returned
\* complete_instructions, in the state the audit leaves and in the state the
\* run returns.
C31_CorrectionInBothViews ==
    [][InstructionCompletion /\ CorrectionAccepted(state, heard')
         => /\ calls'.llm = calls.llm + 1
            /\ \A s \in {state', result'} :
                  /\ "instructions" \in s.final_recipe.keys
                  /\ "instructions" \in s.selected_recipe.keys
                  /\ s.final_recipe.instructions
                       = heard'.value.complete_instructions
                  /\ s.selected_recipe.instructions
                       = heard'.value.complete_instructions]_vars

\* a compiled recipe of two steps was corrected to five; the draft view,
\* which held the draft's three steps, holds the five as well
C31_Witness ==
    /\ Done
    /\ Len(trace) = 6
    /\ heard = Json(Completion({"complete_instructions"}, FiveSteps))
    /\ result.final_recipe.instructions = FiveSteps
    /\ result.selected_recipe.instructions = FiveSteps
    /\ result.processing_step = "instruction_completion_complete"

\* C32: for every request that passes validation, the ingredient list
\* placed in the initial state handed to execute_workflow is non-empty,
\* contains no duplicate strings, and holds only trimmed, non-blank strings.
C32_IngredientsCleanAndDistinct ==
    Started =>
        /\ initial_state.ingredients # <<>>
        /\ NoDuplicates(initial_state.ingredients)
        /\ \A i \in DOMAIN initial_state.ingredients :
              /\ initial_state.ingredients[i] # ""
              /\ Strip(initial_state.ingredients[i])
                   = initial_state.ingredients[i]

\* C33: within one run each stage (draft generation, search and enhancement,
\* tips and compilation, completeness audit) is invoked at most once: no
\* node's name occurs twice among the invocations of the run, whatever
\* failed or fell back, and a run has at most six invocations.
C33_NoStageInvokedTwice ==
    /\ \A i, j \in DOMAIN trace : trace[i] = trace[j] => i = j
    /\ Len(trace) <= 6
    /\ pc \in {"done", "rejected"} => ~ENABLED Next

\* the draft fell back, the search failed, the compilation raised: the run
\* has ended with each of the four nodes it reached invoked once
C33_Witness ==
    /\ Done
    /\ exc # ""
    /\ DraftIs(state, RunFallback)
    /\ state.online_search_results = <<>>
    /\ trace = <<"combined_recipe_generation", "online_search",
                 "cooking_tips", "final_recipe_compiler">>
    /\ calls.llm = 3

-----------------------------------------------------------------------------
(* Fallback content *)

\* the state a run without search returns when every model call fails, as a
\* function of the request: the initial state with the fallback draft made
\* from its ingredient list and its first appliance
AllFailedResult(r) ==
    LET fb == create_fallback_recipe(CleanIngredients(r.ingredients),
                                     r.appliances[1])
    IN  [InitialState(r) EXCEPT
            !.parsed_ingredients = CleanIngredients(r.ingredients),
            !.selected_recipe = fb.recipe,
            !.final_recipe = fb.recipe,
            !.nutrition_info = fb.nutrition,
            !.shopping_list = fb.shopping_list,
            !.processing_step = "instruction_completion_complete"]

\* C34: fallback content is deterministic: a run without search in which
\* every model call fails returns a state that is a function of the request
\* alone, so two such runs on equal requests return identical states; the
\* fallback recipe, nutrition and shopping list are those made from the
\* request's ingredient list and primary appliance.
C34_AllFailedRunIsAFunctionOfRequest ==
    [][(/\ InstructionCompletion
        /\ SearchDisabled
        /\ heard.outcome = "fail"
        /\ heard'.outcome = "fail")
       => /\ \A k \in StateKeys : result'[k] = AllFailedResult(req)[k]
          /\ result'.final_recipe.description
               = "A simple dish using available ingredients with "
                 \o req.appliances[1]
          /\ result'.final_recipe.difficulty = "Easy"
          /\ result'.final_recipe.ingredients
               = [i \in 1..Len(req.ingredients) |->
                     BULLET \o req.ingredients[i]]
          /\ result'.nutrition_info.calories_per_serving = 300
          /\ result'.shopping_list = <<"Basic seasonings if needed">>]_vars

\* a run without search whose only model call, the draft call, did not
\* yield a payload: the fallback for rice and egg on the grill is returned
C34_Witness ==
    /\ Done
    /\ SearchDisabled
    /\ calls.llm = 1
    /\ heard = CompletionFailed
    /\ req.ingredients = <<"rice", "egg">>
    /\ req.appliances = <<"Grill", "Oven">>
    /\ result.final_recipe.name = "Simple Mixed Dish"
    /\ result.final_recipe.appliance_used = Str("Grill")
    /\ result.final_recipe.ingredients = <<BULLET \o "rice", BULLET \o "egg">>
    /\ result.error_message = ""

\* C35: the structured-completion call either returns the object parsed
\* from the model's text or raises: when the text does not parse, or the
\* model call fails, it raises, so the draft stage stores nothing taken from
\* such a response: it stores the local fallback and raises nothing itself.
C35_ParsedOrRaised ==
    [][CombinedRecipeGeneration =>
         LET got == generate_json_response(heard') IN
         /\ heard'.outcome = "json"
              => got.exc = "" /\ got.value = heard'.value
         /\ heard'.outcome # "json"
              => /\ got.exc # ""
                 /\ DraftIs(state', create_fallback_recipe(state.ingredients,
                                                          state.appliance))
                 /\ state'.final_recipe # heard'.value.recipe
                 /\ exc' = ""]_vars

\* the draft call came back with a payload wrapped in text that does not
\* parse; the fallback was stored, not the payload
C35_Witness ==
    /\ JustRan("combined_recipe_generation")
    /\ heard = Wrapped(Payload(PayloadKeys,
                               LLMRecipe(Str("Oven"), LongInstructions),
                               <<"soy sauce">>))
    /\ state.final_recipe.name = "Simple Mixed Dish"
    /\ state.nutrition_info.calories_per_serving = 300
    /\ state.shopping_list = <<"Basic seasonings if needed">>
    /\ exc = ""

-----------------------------------------------------------------------------
(* Tips after enhancement, the search flags, the error message, call counts *)

\* what the tips step stores for a response: its non-blank lines, stripped,
\* or the generic list when the call failed
TipsFor(resp) ==
    IF resp.outcome = "text" THEN StripLines(resp.lines) ELSE GenericTips

\* C36: with augmentation enabled, the tips step runs after tip enhancement
\* and assigns cooking_tips outright: after it cooking_tips is exactly the
\* line-split tips response or the fixed 4-item list, whatever the
\* enhancement step had merged; that list is the one the compilation call is
\* given and the one the run returns.
C36_TipsStepOverwritesMergedTips ==
    [][/\ EnhanceWithSearch => ~Ran("cooking_tips")
       /\ CookingTips => state'.cooking_tips = TipsFor(heard')
       /\ FinalRecipeCompiler
            => /\ JustRan("cooking_tips")
               /\ state.cooking_tips = TipsFor(heard)
               /\ state'.cooking_tips = state.cooking_tips
       /\ InstructionCompletion /\ Ran("cooking_tips")
            => /\ state.cooking_tips \in {TipsFor(r) : r \in TipsResponses}
               /\ result'.cooking_tips = state.cooking_tips]_vars

\* the enhancement merged tips from the search, the tips step then stored
\* the three lines of its own response, and none of the merged tips is left
C36_Witness ==
    /\ JustRan("cooking_tips")
    /\ Ran("enhance_with_search")
    /\ state.search_enhancement_complete
    /\ heard.outcome = "text"
    /\ state.cooking_tips
         = <<"1. Preheat the oven", "2. Rest the meat", "3. Taste often">>
    /\ \A t \in {"Rinse the rice", "Rest the meat", "B", "C", "D"} :
          \A i \in DOMAIN state.cooking_tips : state.cooking_tips[i] # t

\* C37: in every state of a run, before, between and after the nodes,
\* search_enhanced is true exactly when online_search_results is non-empty:
\* in the state built by the app, in the state the nodes work on and in the
\* state returned.
C37_SearchFlagMatchesResults ==
    \A s \in {initial_state, state, result} :
        s.search_enhanced <=> s.online_search_results # <<>>

\* the first query found nothing, the second one hit: one result, flag set
C37_Witness ==
    /\ SearchLooped
    /\ heard.value[1] = SearchHits(<<>>)
    /\ heard.value[2] = SearchHits(<<Hit1>>)
    /\ Len(state.online_search_results) = 1
    /\ state.search_enhanced
    /\ ~initial_state.search_enhanced

\* C38: once a stage has set error_message to a non-empty value, no later
\* stage clears or changes it, and the state the run returns carries a
\* non-empty error_message, even when the later stages go on to populate
\* final_recipe.
C38_ErrorMessageSticks ==
    [][state.error_message # ""
         => /\ state'.error_message = state.error_message
            /\ pc' = "done" => result'.error_message # ""]_vars

\* the search step recorded its failure, tips and compilation went on and
\* produced a final recipe, and the returned state still carries the message
C38_Witness ==
    /\ Done
    /\ Len(trace) = 5
    /\ result.error_message = "Online search error: AttributeError"
    /\ result.final_recipe.name = "Golden Fried Rice"
    /\ result.final_recipe.instructions = LongInstructions
    /\ ui.shown = "error"

\* the most model calls a run makes, with search and without
MaxModelCalls == 5
MaxModelCallsNoSearch == 2

\* C39: every run terminates provided each model and search call returns or
\* fails, and it issues at most 2 search calls and at most 5 model calls
\* (draft, enhancement, tips, compilation, audit correction), at most 2
\* model calls (draft, audit correction) and no search call when search is
\* disabled.
C39_TerminatesWithinCallBudget ==
    /\ [](/\ calls.search <= MaxQueries
          /\ calls.llm <= MaxModelCalls
          /\ SearchDisabled => /\ calls.llm <= MaxModelCallsNoSearch
                               /\ calls.search = 0)
    /\ <>(pc \in {"done", "rejected"})

\* a run that made every call it can make: two searches and five model
\* calls, the audit's correction included
C39_Witness ==
    /\ Done
    /\ Len(trace) = 6
    /\ calls.search = 2
    /\ calls.llm = 5
    /\ exc = ""

\* the instruction list of the fallback draft built for appliance name a
FallbackSteps(a) == create_fallback_recipe(<<>>, a).recipe.instructions

\* the appliance names the fallback is built for: the supported ones and
\* the empty string
FallbackApplianceNames == SUPPORTED_APPLIANCES \cup {""}

\* C40: the draft fallback's instruction list is never judged incomplete by
\* the audit: for every appliance name, the empty string included, it has 5
\* steps whose mean length is at least 30 characters; so when the audit
\* follows a draft fallback in a run without search, it makes no model call
\* and final_recipe stays equal to the fallback recipe.
C40_FallbackNeverJudgedIncomplete ==
    /\ [](\A a \in FallbackApplianceNames :
            /\ Len(FallbackSteps(a)) = 5
            /\ SumLen(FallbackSteps(a)) >= MinAvgLength * 5
            /\ ~needs_completion(FallbackSteps(a)))
    /\ [][(/\ InstructionCompletion
           /\ SearchDisabled
           /\ JustRan("combined_recipe_generation")
           /\ DraftIs(state, RunFallback))
            => /\ calls'.llm = calls.llm
               /\ state'.final_recipe = RunFallback.recipe
               /\ result'.final_recipe = RunFallback.recipe]_vars

\* a run without search whose draft call failed: the audit ran after the
\* fallback, the draft's call is the only one made and the fallback recipe
\* is returned
C40_Witness ==
    /\ Done
    /\ SearchDisabled
    /\ trace = <<"combined_recipe_generation", "instruction_completion">>
    /\ calls.llm = 1
    /\ result.final_recipe = RunFallback.recipe
    /\ result.processing_step = "instruction_completion_complete"

=============================================================================
